---- MODULE Spec2Model ----
(***************************************************************************)
(* A model of parts of the CEGUI toolkit:                                  *)
(*   - BoundSlot (src/cegui/src/BoundSlot.cpp) and the Event that owns     *)
(*     its slots: subscription, disconnection, destruction and firing;     *)
(*   - FrameWindow and Titlebar (src/cegui/src/widgets): input capture,    *)
(*     drag sizing, drag moving and edge resizing.                         *)
(* Lengths are integers counted in half pixels, so that the halves the     *)
(* centre alignment produces (adjustment * 0.5f) are exact.                *)
(***************************************************************************)
EXTENDS Integers, Sequences, FiniteSets, TLC

\* ------------------------------------------------------------------------
\* Bounds of the model
\* ------------------------------------------------------------------------
NSlots == 3           \* BoundSlot objects that may be created

Slots == 1..NSlots
Groups == {0, 1}      \* the privileged group (0) and the default group (1)
NoSlot == 0

VARIABLES
  \* ---- BoundSlot / Event -------------------------------------------------
  status,           \* per slot: "unborn", "alive" (constructed), "destroyed"
  d_group,          \* per slot: BoundSlot::d_group
  d_event,          \* per slot: BoundSlot::d_event, "E" or "null"
  d_subscriber,     \* per slot: "none", "allocated" or "freed"
  d_slots,          \* the Event's container, in invocation order
  firing,           \* the Event is inside operator()
  iter,             \* position of the fire loop in d_slots
  running,          \* slot whose handler is executing, or NoSlot
  invoked,          \* slots invoked by the current (or last) fire, in order
  snapshot,         \* d_slots when the current (or last) fire began
  erased,           \* <<victim, running handler>> pairs unsubscribed in this fire
  unsubscribeCalls, \* per slot: calls of Event::unsubscribe for it
  lastCall,         \* the last operation on a slot: <<name, slot, d_event before>>
  \* ---- GUIContext, Window, FrameWindow, Titlebar -------------------------
  ctx,              \* GUIContext: input capture window, cursor constraint area
  win,              \* per window: Window::d_active, d_restoreOldCapture, d_oldCapture
  geom,             \* the FrameWindow's Element members: area, pixel size, limits
  frame,            \* the FrameWindow's own members
  titlebar,         \* the Titlebar's own members
  last,             \* what the last operation did: events fired, handled marks
  \* ---- OpenGL3Renderer, System --------------------------------------------
  renderer,         \* the System singleton, its renderer, the geometry buffers
  \* ---- the samples --------------------------------------------------------
  inventory,        \* an InventoryItem and the receiver it is dragged over
  form,             \* FormNavigationDemo: edit boxes, checkbox, Confirm button
  widgets           \* WidgetsSample: the event log

slotVars == <<status, d_group, d_event, d_subscriber, d_slots, firing, iter,
              running, invoked, snapshot, erased, unsubscribeCalls,
              lastCall>>

guiVars == <<ctx, win, geom, frame, titlebar, last>>

rendererVars == <<renderer>>

sampleVars == <<inventory, form, widgets>>

vars == <<slotVars, guiVars, rendererVars, sampleVars>>

\* ------------------------------------------------------------------------
\* Sequence helpers
\* ------------------------------------------------------------------------
Range(q) == {q[i] : i \in 1..Len(q)}

IndexOf(q, x) == IF x \in Range(q) THEN CHOOSE i \in 1..Len(q) : q[i] = x ELSE 0

RemoveAt(q, k) == [i \in 1..(Len(q) - 1) |-> IF i < k THEN q[i] ELSE q[i + 1]]

InsertAt(q, k, x) ==
  [i \in 1..(Len(q) + 1) |-> IF i < k THEN q[i] ELSE IF i = k THEN x ELSE q[i - 1]]

\* ------------------------------------------------------------------------
\* The slot/event state as one record, so that the operations are functions
\* ------------------------------------------------------------------------
SlotState ==
  [status |-> status, d_group |-> d_group, d_event |-> d_event,
   d_subscriber |-> d_subscriber, d_slots |-> d_slots, firing |-> firing,
   iter |-> iter, running |-> running, invoked |-> invoked,
   snapshot |-> snapshot, erased |-> erased,
   unsubscribeCalls |-> unsubscribeCalls, lastCall |-> lastCall]

SetSlotState(st) ==
  /\ status' = st.status
  /\ d_group' = st.d_group
  /\ d_event' = st.d_event
  /\ d_subscriber' = st.d_subscriber
  /\ d_slots' = st.d_slots
  /\ firing' = st.firing
  /\ iter' = st.iter
  /\ running' = st.running
  /\ invoked' = st.invoked
  /\ snapshot' = st.snapshot
  /\ erased' = st.erased
  /\ unsubscribeCalls' = st.unsubscribeCalls
  /\ lastCall' = st.lastCall
  /\ UNCHANGED <<guiVars, rendererVars, sampleVars>>

\* ------------------------------------------------------------------------
\* Event (its implementation is not among the sources; modelled from the
\* specification: handlers run in subscription order within a group, the
\* groups in a fixed order, and removing a slot does not disturb the loop)
\* ------------------------------------------------------------------------

\* Event::subscribe: the new slot goes after every slot of its group or of
\* an earlier group.
Event_insert(st, s, g) ==
  LET before == {i \in 1..Len(st.d_slots) : st.d_group[st.d_slots[i]] <= g}
      k == Cardinality(before) + 1
  IN [st EXCEPT !.d_slots = InsertAt(st.d_slots, k, s)]

\* Variant of Event_unsubscribe with a slip: erases from the slot to the end.
Event_unsubscribe_eraseTail(st, s) ==
  LET k == IndexOf(st.d_slots, s)
      counted == [st EXCEPT !.unsubscribeCalls[s] = @ + 1]
  IN IF k = 0 THEN counted
     ELSE [counted EXCEPT
             !.d_slots = SubSeq(st.d_slots, 1, k - 1),
             !.iter = IF st.firing /\ k <= st.iter THEN st.iter - 1 ELSE st.iter,
             !.erased = IF st.firing THEN st.erased \cup {<<s, st.running>>}
                        ELSE st.erased]

\* Event::unsubscribe(slot): erase the Event's reference to the slot, if it
\* holds one; the loop position follows the elements, not the indices.
Event_unsubscribe(st, s) ==
  LET k == IndexOf(st.d_slots, s)
      counted == [st EXCEPT !.unsubscribeCalls[s] = @ + 1]
  IN IF k = 0 THEN counted
     ELSE [counted EXCEPT
             !.d_slots = RemoveAt(st.d_slots, k),
             !.iter = IF st.firing /\ k <= st.iter THEN st.iter - 1 ELSE st.iter,
             !.erased = IF st.firing THEN st.erased \cup {<<s, st.running>>}
                        ELSE st.erased]

\* ------------------------------------------------------------------------
\* BoundSlot (src/cegui/src/BoundSlot.cpp)
\* ------------------------------------------------------------------------

\* BoundSlot::BoundSlot(group, subscriber, event)
BoundSlot_construct(st, s, g) ==
  [st EXCEPT !.status[s] = "alive",
             !.d_group[s] = g,
             !.d_subscriber[s] = "allocated",
             !.d_event[s] = "E"]

\* Variant of disconnect that deletes the functor, which the comment in the
\* code warns against.
disconnect_deletesSubscriber(st, s) ==
  LET called == [st EXCEPT !.lastCall = <<"disconnect", s, st.d_event[s]>>,
                           !.d_subscriber[s] = "freed"]
  IN IF st.d_event[s] # "null"
     THEN [Event_unsubscribe(called, s) EXCEPT !.d_event[s] = "null"]
     ELSE called

\* Variant of disconnect without the d_event test.
disconnect_unguarded(st, s) ==
  LET called == [st EXCEPT !.lastCall = <<"disconnect", s, st.d_event[s]>>]
  IN [Event_unsubscribe(called, s) EXCEPT !.d_event[s] = "null"]

\* BoundSlot::disconnect()
disconnect(st, s) ==
  LET called == [st EXCEPT !.lastCall = <<"disconnect", s, st.d_event[s]>>]
  IN IF st.d_event[s] # "null"
     THEN [Event_unsubscribe(called, s) EXCEPT !.d_event[s] = "null"]
     ELSE called

\* BoundSlot::~BoundSlot(): disconnect(), then delete d_subscriber
BoundSlot_destruct(st, s) ==
  [disconnect(st, s) EXCEPT !.d_subscriber[s] = "freed",
                            !.status[s] = "destroyed",
                            !.lastCall = <<"destruct", s, st.d_event[s]>>]

\* ------------------------------------------------------------------------
\* Actions of the slot/event subsystem
\* ------------------------------------------------------------------------
InitSlots ==
  /\ status = [s \in Slots |-> "unborn"]
  /\ d_group = [s \in Slots |-> 0]
  /\ d_event = [s \in Slots |-> "null"]
  /\ d_subscriber = [s \in Slots |-> "none"]
  /\ d_slots = <<>>
  /\ firing = FALSE
  /\ iter = 0
  /\ running = NoSlot
  /\ invoked = <<>>
  /\ snapshot = <<>>
  /\ erased = {}
  /\ unsubscribeCalls = [s \in Slots |-> 0]
  /\ lastCall = <<"none", NoSlot, "null">>

\* Event::subscribe: a BoundSlot is constructed and stored by the Event.
\* Slots are numbered in the order of their construction.
Subscribe(s, g) ==
  /\ ~firing
  /\ status[s] = "unborn"
  /\ \A t \in Slots : t < s => status[t] # "unborn"
  /\ SetSlotState([Event_insert(BoundSlot_construct(SlotState, s, g), s, g)
                     EXCEPT !.lastCall = <<"construct", s, "null">>])

\* The holder of a connection calls disconnect(), outside or inside a handler.
Disconnect(s) ==
  /\ firing => running # NoSlot
  /\ status[s] = "alive"
  /\ SetSlotState(disconnect(SlotState, s))

\* The last reference to a slot goes away.  A slot is not destroyed while
\* its own handler is executing.
Destroy(s) ==
  /\ firing => (running # NoSlot /\ running # s)
  /\ status[s] = "alive"
  /\ SetSlotState(BoundSlot_destruct(SlotState, s))

\* Event::operator(): begin
FireBegin ==
  /\ ~firing
  /\ SetSlotState([SlotState EXCEPT !.firing = TRUE, !.iter = 1,
                                    !.running = NoSlot, !.invoked = <<>>,
                                    !.snapshot = d_slots, !.erased = {},
                                    !.lastCall = <<"fire", NoSlot, "null">>])

\* Event::operator(): call the subscriber functor of the current slot
FireEnter ==
  /\ firing
  /\ running = NoSlot
  /\ iter <= Len(d_slots)
  /\ SetSlotState([SlotState EXCEPT !.running = d_slots[iter],
                                    !.invoked = Append(invoked, d_slots[iter]),
                                    !.lastCall = <<"invoke", d_slots[iter], "E">>])

\* Event::operator(): the functor returns, the loop advances
FireReturn ==
  /\ firing
  /\ running # NoSlot
  /\ SetSlotState([SlotState EXCEPT !.running = NoSlot, !.iter = iter + 1,
                                    !.lastCall = <<"return", running, "null">>])

\* Event::operator(): end
FireEnd ==
  /\ firing
  /\ running = NoSlot
  /\ iter > Len(d_slots)
  /\ SetSlotState([SlotState EXCEPT !.firing = FALSE, !.iter = 0,
                                    !.invoked = <<>>, !.snapshot = <<>>,
                                    !.erased = {},
                                    !.lastCall = <<"fired", NoSlot, "null">>])

SlotStep ==
  \/ \E s \in Slots, g \in Groups : Subscribe(s, g)
  \/ \E s \in Slots : Disconnect(s)
  \/ \E s \in Slots : Destroy(s)
  \/ FireBegin
  \/ FireEnter
  \/ FireReturn
  \/ FireEnd

\* ------------------------------------------------------------------------
\* Geometry.  All lengths are whole numbers of half pixels.
\* ------------------------------------------------------------------------
HalfPixels == 2

Px(n) == HalfPixels * n

Pt(x, y) == [x |-> x, y |-> y]

Rect(l, t, r, b) == [l |-> l, t |-> t, r |-> r, b |-> b]

ZeroRect == Rect(0, 0, 0, 0)

Max2(a, b) == IF a >= b THEN a ELSE b

Min2(a, b) == IF a <= b THEN a ELSE b

\* Rectf::getIntersection
getIntersection(a, b) ==
  IF a.r > b.l /\ a.l < b.r /\ a.b > b.t /\ a.t < b.b
  THEN Rect(Max2(a.l, b.l), Max2(a.t, b.t), Min2(a.r, b.r), Min2(a.b, b.b))
  ELSE ZeroRect

\* Rectf::isPointInRectf
isPointInRectf(r, p) == ~(r.l > p.x \/ r.r <= p.x \/ r.t > p.y \/ r.b <= p.y)

\* ------------------------------------------------------------------------
\* The windows: a FrameWindow F, its Titlebar T, another Window O, and R,
\* the parent of F when F has one.
\* ------------------------------------------------------------------------
Windows == {"R", "F", "T", "O"}

NoWindow == "none"

\* FrameWindow::DefaultSizingBorderSize (8.0f)
DefaultSizingBorderSize == 8

\* The display (getRootContainerSize) and the inner clipping rect of R.
ScreenRect == Rect(0, 0, Px(100), Px(80))

GrandParentClip == Rect(Px(20), Px(10), Px(90), Px(70))

\* Position and size of the Titlebar inside the FrameWindow.
TitlebarPos == Pt(Px(2), Px(2))

TitlebarHeight == Px(12)

\* The state of the GUI as one record, so that the handlers are functions.
\* ret holds the value the last called function returned.
GuiState ==
  [ctx |-> ctx, win |-> win, geom |-> geom, frame |-> frame,
   titlebar |-> titlebar, last |-> last, ret |-> FALSE]

SetGuiState(st) ==
  /\ ctx' = st.ctx
  /\ win' = st.win
  /\ geom' = st.geom
  /\ frame' = st.frame
  /\ titlebar' = st.titlebar
  /\ last' = st.last
  /\ UNCHANGED <<slotVars, rendererVars, sampleVars>>

\* A fresh record of what an operation does; moves counts the cursor moves
\* injected so far, result is what a query returned.
Begin(st, op) ==
  [st EXCEPT !.last = [op |-> op, fired |-> <<>>, handled |-> <<>>,
                       captured |-> <<>>, moves |-> st.last.moves,
                       result |-> "none"]]

\* EventSet::fireEvent
fireEvent(st, w, name) == [st EXCEPT !.last.fired = Append(@, <<w, name>>)]

\* ++e.handled, by the code of class cls, on event args of kind kind
markHandled(st, kind, cls) ==
  [st EXCEPT !.last.handled = Append(@, <<kind, cls>>)]

Count(q, x) == Cardinality({i \in 1..Len(q) : q[i] = x})

CursorHandled(st) ==
  Cardinality({i \in 1..Len(st.last.handled) : st.last.handled[i][1] = "cursor"})

\* ------------------------------------------------------------------------
\* Window (src/cegui/include/CEGUI/Window.h; the member functions defined
\* in Window.cpp are modelled from the specification and the comments of
\* the header)
\* ------------------------------------------------------------------------

\* Variant of isActive that reports the local flag.
isActive_localOnly(st, w) == st.win.d_active[w]

\* Window::isActive (Window.h)
RECURSIVE isActive(_, _)
isActive(st, w) ==
  st.win.d_active[w]
    /\ (st.win.d_parent[w] = NoWindow \/ isActive(st, st.win.d_parent[w]))

\* Window::isVisible (Window.h)
isVisible(st, w) == st.win.d_visible[w]

\* Variant of isEffectiveVisible that asks the parent for its local flag.
isEffectiveVisible_parentFlagOnly(st, w) ==
  st.win.d_visible[w]
    /\ (st.win.d_parent[w] = NoWindow \/ isVisible(st, st.win.d_parent[w]))

\* Window::isEffectiveVisible (Window.h)
RECURSIVE isEffectiveVisible(_, _)
isEffectiveVisible(st, w) ==
  st.win.d_visible[w]
    /\ (st.win.d_parent[w] = NoWindow \/ isEffectiveVisible(st, st.win.d_parent[w]))

\* Window::getCaptureWindow, Window::isCapturedByThis (Window.h)
getCaptureWindow(st) == st.ctx.captureWnd

isCapturedByThis(st, w) == getCaptureWindow(st) = w

\* Window::onCaptureGained
Window_onCaptureGained(st, w) == fireEvent(st, w, "InputCaptureGained")

\* Window::onCaptureLost
Window_onCaptureLost(st, w) == fireEvent(st, w, "InputCaptureLost")

\* FrameWindow::onDragSizingStarted, FrameWindow::onDragSizingEnded
onDragSizingStarted(st) == fireEvent(st, "F", "DragSizingStarted")

onDragSizingEnded(st) == fireEvent(st, "F", "DragSizingEnded")

\* Variant of FrameWindow::onCaptureLost that only ends a drag in progress.
FrameWindow_onCaptureLost_onlyIfSizing(st) ==
  LET base == Window_onCaptureLost(st, "F")
  IN IF base.frame.d_beingSized
     THEN markHandled(onDragSizingEnded([base EXCEPT !.frame.d_beingSized = FALSE]),
                      "captureLost", "FrameWindow")
     ELSE base

\* Variant of FrameWindow::onCaptureLost that leaves beingSized as it is.
FrameWindow_onCaptureLost_keepsSizing(st) ==
  markHandled(onDragSizingEnded(Window_onCaptureLost(st, "F")), "captureLost", "FrameWindow")

\* FrameWindow::onCaptureLost
FrameWindow_onCaptureLost(st) ==
  LET base == Window_onCaptureLost(st, "F")
      reset == [base EXCEPT !.frame.d_beingSized = FALSE]
  IN markHandled(onDragSizingEnded(reset), "captureLost", "FrameWindow")

\* Titlebar::onCaptureLost
Titlebar_onCaptureLost(st) ==
  LET base == Window_onCaptureLost(st, "T")
  IN [base EXCEPT !.titlebar.d_dragging = FALSE,
                  !.ctx.constraintArea = base.titlebar.d_oldCursorArea]

\* the virtual call w->onCaptureLost(args)
onCaptureLost(st, w) ==
  CASE w = "F" -> FrameWindow_onCaptureLost(st)
    [] w = "T" -> Titlebar_onCaptureLost(st)
    [] OTHER -> Window_onCaptureLost(st, w)

Returning(st, w, ok) ==
  [st EXCEPT !.ret = ok, !.last.captured = Append(@, <<w, ok>>)]

\* Window::captureInput: fails unless the window is active; the window that
\* had the capture is told so unless this window restores the old capture.
captureInput(st, w) ==
  IF ~isActive(st, w) THEN Returning(st, w, FALSE)
  ELSE IF isCapturedByThis(st, w) THEN Returning(st, w, TRUE)
  ELSE
    LET current == getCaptureWindow(st)
        taken == [st EXCEPT !.ctx.captureWnd = w]
        told == IF current # NoWindow /\ ~st.win.d_restoreOldCapture[w]
                THEN onCaptureLost(taken, current)
                ELSE taken
        kept == IF st.win.d_restoreOldCapture[w]
                THEN [told EXCEPT !.win.d_oldCapture[w] = current]
                ELSE told
    IN Returning(Window_onCaptureGained(kept, w), w, TRUE)

\* Window::releaseInput: nothing happens unless the window has the capture;
\* a window that restores the old capture hands it back silently.
releaseInput(st, w) ==
  IF ~isCapturedByThis(st, w) THEN st
  ELSE
    LET handed ==
          IF st.win.d_restoreOldCapture[w]
          THEN [st EXCEPT !.ctx.captureWnd = st.win.d_oldCapture[w],
                          !.win.d_oldCapture[w] = NoWindow]
          ELSE [st EXCEPT !.ctx.captureWnd = NoWindow]
    IN onCaptureLost(handed, w)

\* ------------------------------------------------------------------------
\* Cursor input.  An event carries its source and the cursor position; the
\* position is given relative to the top-left corner of the FrameWindow.
\* ------------------------------------------------------------------------
Sources == {"Left", "Right"}

CursorEvent(source, position) == [source |-> source, position |-> position]

\* CoordConverter::screenToWindow
screenToWindow(w, position) ==
  IF w = "T"
  THEN Pt(position.x - TitlebarPos.x, position.y - TitlebarPos.y)
  ELSE position

\* dynamic_cast<FrameWindow*>(w) succeeds
IsFrameWindow(w) == w = "F"

\* ------------------------------------------------------------------------
\* FrameWindow (src/cegui/src/widgets/FrameWindow.cpp)
\* ------------------------------------------------------------------------
isSizingEnabled(st) == st.frame.d_sizingEnabled

isFrameEnabled(st) == st.frame.d_frameEnabled

\* FrameWindow::getSizingRect
getSizingRect(st) == Rect(0, 0, st.geom.d_pixelSize.w, st.geom.d_pixelSize.h)

\* Variant of the zone test that tries the single edges before the corners.
sizingLocation_edgesFirst(f, borderSize, pt) ==
  LET inner == Rect(f.l + borderSize, f.t + borderSize,
                    f.r - borderSize, f.b - borderSize)
      top == pt.y < inner.t
      bottom == pt.y >= inner.b
      left == pt.x < inner.l
      right == pt.x >= inner.r
  IN IF top THEN "Top"
     ELSE IF bottom THEN "Bottom"
     ELSE IF left THEN "Left"
     ELSE IF right THEN "Right"
     ELSE "Invalid"

\* The zone of pt on the border of thickness borderSize inside rect f, for
\* pt inside f (the body of getSizingBorderAtPoint).
sizingLocation(f, borderSize, pt) ==
  LET inner == Rect(f.l + borderSize, f.t + borderSize,
                    f.r - borderSize, f.b - borderSize)
      top == pt.y < inner.t
      bottom == pt.y >= inner.b
      left == pt.x < inner.l
      right == pt.x >= inner.r
  IN IF top /\ left THEN "TopLeft"
     ELSE IF top /\ right THEN "TopRight"
     ELSE IF bottom /\ left THEN "BottomLeft"
     ELSE IF bottom /\ right THEN "BottomRight"
     ELSE IF top THEN "Top"
     ELSE IF bottom THEN "Bottom"
     ELSE IF left THEN "Left"
     ELSE IF right THEN "Right"
     ELSE "Invalid"

\* FrameWindow::getSizingBorderAtPoint
getSizingBorderAtPoint(st, pt) ==
  IF isSizingEnabled(st) /\ isFrameEnabled(st)
       /\ isPointInRectf(getSizingRect(st), pt)
  THEN sizingLocation(getSizingRect(st), st.frame.d_borderSize, pt)
  ELSE "Invalid"

RECURSIVE onCursorPressHold(_, _, _)
RECURSIVE onCursorActivate(_, _, _)

\* Window::onCursorPressHold: fires the event; an event nobody handled goes
\* to the parent of a window that propagates cursor input, else it is marked
\* handled.
Window_onCursorPressHold(st, w, e) ==
  LET fired == fireEvent(st, w, "CursorPressHold")
      parent == st.win.d_parent[w]
  IN IF CursorHandled(fired) = 0 /\ st.win.d_propagatePointerInputs[w]
          /\ parent # NoWindow
     THEN onCursorPressHold(fired, parent, e)
     ELSE markHandled(fired, "cursor", "Window")

\* Window::onCursorActivate
Window_onCursorActivate(st, w, e) ==
  LET fired == fireEvent(st, w, "CursorActivate")
      parent == st.win.d_parent[w]
  IN IF CursorHandled(fired) = 0 /\ st.win.d_propagatePointerInputs[w]
          /\ parent # NoWindow
     THEN onCursorActivate(fired, parent, e)
     ELSE markHandled(fired, "cursor", "Window")

\* Variant of FrameWindow::onCursorPressHold that ignores what captureInput
\* returned.
FrameWindow_onCursorPressHold_uncheckedCapture(st, e) ==
  LET base == Window_onCursorPressHold(st, "F", e)
      localPos == screenToWindow("F", e.position)
  IN IF e.source = "Left" /\ isSizingEnabled(base)
          /\ getSizingBorderAtPoint(base, localPos) # "Invalid"
     THEN LET captured == captureInput(base, "F")
              sizing == [captured EXCEPT !.frame.d_beingSized = TRUE,
                                         !.frame.d_dragPoint = localPos]
          IN markHandled(onDragSizingStarted(sizing), "cursor", "FrameWindow")
     ELSE base

\* FrameWindow::onCursorPressHold
FrameWindow_onCursorPressHold(st, e) ==
  LET base == Window_onCursorPressHold(st, "F", e)
      localPos == screenToWindow("F", e.position)
  IN IF e.source = "Left" /\ isSizingEnabled(base)
          /\ getSizingBorderAtPoint(base, localPos) # "Invalid"
     THEN LET captured == captureInput(base, "F")
          IN IF captured.ret
             THEN LET sizing == [captured EXCEPT !.frame.d_beingSized = TRUE,
                                                 !.frame.d_dragPoint = localPos]
                  IN markHandled(onDragSizingStarted(sizing), "cursor", "FrameWindow")
             ELSE captured
     ELSE base

\* FrameWindow::onCursorActivate
FrameWindow_onCursorActivate(st, e) ==
  LET base == Window_onCursorActivate(st, "F", e)
  IN IF e.source = "Left" /\ isCapturedByThis(base, "F")
     THEN markHandled(releaseInput(base, "F"), "cursor", "FrameWindow")
     ELSE base

\* FrameWindow::setSizingEnabled
setSizingEnabled(st, setting) == [st EXCEPT !.frame.d_sizingEnabled = setting]

\* FrameWindow::setFrameEnabled
setFrameEnabled(st, setting) == [st EXCEPT !.frame.d_frameEnabled = setting]

\* ------------------------------------------------------------------------
\* Titlebar (src/cegui/src/widgets/Titlebar.cpp)
\* ------------------------------------------------------------------------

\* Variant of Titlebar::onCursorPressHold without the sizing border test.
Titlebar_onCursorPressHold_noBorderTest(st, e) ==
  LET base == Window_onCursorPressHold(st, "T", e)
      parent == st.win.d_parent["T"]
  IN IF e.source # "Left" THEN base
     ELSE
       LET drag ==
             IF parent # NoWindow /\ base.titlebar.d_dragEnabled
             THEN LET captured == captureInput(base, "T")
                      old == captured.ctx.constraintArea
                      grandParent == st.win.d_parent[parent]
                      constrainArea ==
                        IF grandParent # NoWindow
                        THEN getIntersection(GrandParentClip, old)
                        ELSE getIntersection(ScreenRect, old)
                  IN IF captured.ret
                     THEN [captured EXCEPT
                             !.titlebar.d_dragging = TRUE,
                             !.titlebar.d_dragPoint = screenToWindow("T", e.position),
                             !.titlebar.d_oldCursorArea = old,
                             !.ctx.constraintArea = constrainArea]
                     ELSE captured
             ELSE base
       IN markHandled(drag, "cursor", "Titlebar")

\* Titlebar::onCursorPressHold
Titlebar_onCursorPressHold(st, e) ==
  LET base == Window_onCursorPressHold(st, "T", e)
      parent == st.win.d_parent["T"]
  IN IF e.source # "Left" THEN base
     ELSE IF IsFrameWindow(parent) /\ isSizingEnabled(base)
               /\ getSizingBorderAtPoint(base, screenToWindow(parent, e.position))
                    # "Invalid"
     THEN base
     ELSE
       LET drag ==
             IF parent # NoWindow /\ base.titlebar.d_dragEnabled
             THEN LET captured == captureInput(base, "T")
                      old == captured.ctx.constraintArea
                      grandParent == st.win.d_parent[parent]
                      constrainArea ==
                        IF grandParent # NoWindow
                        THEN getIntersection(GrandParentClip, old)
                        ELSE getIntersection(ScreenRect, old)
                  IN IF captured.ret
                     THEN [captured EXCEPT
                             !.titlebar.d_dragging = TRUE,
                             !.titlebar.d_dragPoint = screenToWindow("T", e.position),
                             !.titlebar.d_oldCursorArea = old,
                             !.ctx.constraintArea = constrainArea]
                     ELSE captured
             ELSE base
       IN markHandled(drag, "cursor", "Titlebar")

\* Titlebar::onCursorActivate
Titlebar_onCursorActivate(st, e) ==
  LET base == Window_onCursorActivate(st, "T", e)
  IN IF e.source = "Left"
     THEN markHandled(releaseInput(base, "T"), "cursor", "Titlebar")
     ELSE base

\* Titlebar::setDraggingEnabled
setDraggingEnabled(st, setting) ==
  IF st.titlebar.d_dragEnabled # setting
  THEN LET set == [st EXCEPT !.titlebar.d_dragEnabled = setting]
           stopped == IF ~setting /\ set.titlebar.d_dragging
                      THEN releaseInput(set, "T")
                      ELSE set
       IN fireEvent(stopped, "T", "DraggingModeChanged")
  ELSE st

\* the virtual calls w->onCursorPressHold(e), w->onCursorActivate(e)
onCursorPressHold(st, w, e) ==
  CASE w = "F" -> FrameWindow_onCursorPressHold(st, e)
    [] w = "T" -> Titlebar_onCursorPressHold(st, e)
    [] OTHER -> Window_onCursorPressHold(st, w, e)

onCursorActivate(st, w, e) ==
  CASE w = "F" -> FrameWindow_onCursorActivate(st, e)
    [] w = "T" -> Titlebar_onCursorActivate(st, e)
    [] OTHER -> Window_onCursorActivate(st, w, e)

\* ------------------------------------------------------------------------
\* Window activation and capture settings (modelled from the specification)
\* ------------------------------------------------------------------------
RECURSIVE IsAncestor(_, _, _)
IsAncestor(st, a, w) ==
  st.win.d_parent[w] # NoWindow
    /\ (st.win.d_parent[w] = a \/ IsAncestor(st, a, st.win.d_parent[w]))

\* Window::activate sets the local flag only, and only of a window that is
\* visible
activate(st, w) ==
  IF isEffectiveVisible(st, w) THEN [st EXCEPT !.win.d_active[w] = TRUE] ELSE st

\* Window::deactivate also deactivates the children
deactivate(st, w) ==
  [st EXCEPT !.win.d_active =
     [v \in Windows |-> IF v = w \/ IsAncestor(st, w, v) THEN FALSE ELSE @[v]]]

\* Window::setVisible: hiding the active window deactivates it
setVisible(st, w, setting) ==
  IF st.win.d_visible[w] = setting THEN st
  ELSE LET set == [st EXCEPT !.win.d_visible[w] = setting]
       IN IF ~setting /\ isActive(st, w) THEN deactivate(set, w) ELSE set

\* Element::addChild, Element::removeChild: a child that has a parent
\* leaves it first
addChild(st, parent, child) == [st EXCEPT !.win.d_parent[child] = parent]

removeChild(st, child) == [st EXCEPT !.win.d_parent[child] = NoWindow]

\* ------------------------------------------------------------------------
\* WindowUpdateMode and its PropertyHelper (Window.h): the enumeration is an
\* int, a String is compared character by character.
\* ------------------------------------------------------------------------
WindowUpdateMode_Always == 0

WindowUpdateMode_Never == 1

WindowUpdateMode_Visible == 2

WindowUpdateModes ==
  {WindowUpdateMode_Always, WindowUpdateMode_Never, WindowUpdateMode_Visible}

\* Variant of fromString whose fallback is Always.
fromString_fallbackAlways(str) ==
  IF str = "Never" THEN WindowUpdateMode_Never
  ELSE IF str = "Visible" THEN WindowUpdateMode_Visible
  ELSE WindowUpdateMode_Always

\* PropertyHelper<WindowUpdateMode>::fromString
fromString(str) ==
  IF str = "Always" THEN WindowUpdateMode_Always
  ELSE IF str = "Never" THEN WindowUpdateMode_Never
  ELSE WindowUpdateMode_Visible

\* Variant of toString with the literal of Always in the branch of Never.
toString_neverAsAlways(val, NDEBUG) ==
  IF val = WindowUpdateMode_Always THEN "Always"
  ELSE IF val = WindowUpdateMode_Never THEN "Always"
  ELSE IF val = WindowUpdateMode_Visible THEN "Visible"
  ELSE IF NDEBUG THEN "Always" ELSE "assert"

\* PropertyHelper<WindowUpdateMode>::toString; a value outside the
\* enumeration fails the assertion, or gives "Always" in a build without
\* assertions.
toString(val, NDEBUG) ==
  IF val = WindowUpdateMode_Always THEN "Always"
  ELSE IF val = WindowUpdateMode_Never THEN "Never"
  ELSE IF val = WindowUpdateMode_Visible THEN "Visible"
  ELSE IF NDEBUG THEN "Always" ELSE "assert"

\* Window::setUpdateMode, Window::getUpdateMode
setUpdateMode(st, w, mode) == [st EXCEPT !.win.d_updateMode[w] = mode]

getUpdateMode(st, w) == st.win.d_updateMode[w]

\* Window::setRestoreOldCapture
setRestoreOldCapture(st, w, setting) ==
  [st EXCEPT !.win.d_restoreOldCapture[w] = setting]

\* ------------------------------------------------------------------------
\* Edge resizing.  The dimensions of the area are absolute (their scale is
\* zero), so a dimension's absolute value is its offset.
\* ------------------------------------------------------------------------
Size(w, h) == [w |-> w, h |-> h]

\* adjustment * 0.5f
Half(a) == a \div HalfPixels

\* Element::getSize, resolved to pixels: the size without the limits
getSize(st) ==
  Size(st.geom.d_area.r - st.geom.d_area.l, st.geom.d_area.b - st.geom.d_area.t)

\* One axis of Element::calculatePixelSize: the size within the limits; a
\* maximum of zero is no limit, and the maximum wins over a larger minimum.
limitedSize(size, minSize, maxSize) ==
  LET absMin == IF maxSize # 0 /\ minSize > maxSize THEN maxSize ELSE minSize
  IN IF size < absMin THEN absMin
     ELSE IF maxSize # 0 /\ size > maxSize THEN maxSize
     ELSE size

calculatePixelSize(st) ==
  Size(limitedSize(getSize(st).w, st.geom.d_minSize.w, st.geom.d_maxSize.w),
       limitedSize(getSize(st).h, st.geom.d_minSize.h, st.geom.d_maxSize.h))

\* Element::setArea(pos, size)
setArea(st, area) ==
  LET moved == [st EXCEPT !.geom.d_area = area]
  IN [moved EXCEPT !.geom.d_pixelSize = calculatePixelSize(moved)]

\* Variant of the size limiting of the move*Edge functions that lets the
\* minimum win.
constrainedSize_minFirst(newSize, minSize, maxSize) ==
  IF newSize < minSize THEN minSize
  ELSE IF maxSize # 0 /\ newSize > maxSize THEN maxSize
  ELSE newSize

\* "ensure that we only size to the set constraints", in each move*Edge
constrainedSize(newSize, minSize, maxSize) ==
  IF maxSize # 0 /\ newSize > maxSize THEN maxSize
  ELSE IF newSize < minSize THEN minSize
  ELSE newSize

\* The result of a move*Edge function: the state and the area it worked on.
Moved(st, outArea) == [gui |-> st, outArea |-> outArea]

\* FrameWindow::moveLeftEdge
moveLeftEdge(st, delta, outArea) ==
  LET newWidth == constrainedSize(st.geom.d_pixelSize.w - delta,
                                  st.geom.d_minSize.w, st.geom.d_maxSize.w)
      unlimitedWidth == getSize(st).w
      adjustment == unlimitedWidth - newWidth
  IN IF unlimitedWidth = newWidth THEN Moved(st, outArea)
     ELSE IF st.geom.d_horizontalAlignment = "Right"
     THEN Moved(st, [outArea EXCEPT !.r = @ - adjustment])
     ELSE IF st.geom.d_horizontalAlignment = "Centre"
     THEN Moved(st, [outArea EXCEPT !.r = @ - Half(adjustment),
                                    !.l = @ + Half(adjustment)])
     ELSE Moved(st, [outArea EXCEPT !.l = @ + adjustment])

\* Variant of FrameWindow::moveRightEdge that moves the anchor by the
\* cursor delta.
moveRightEdge_rawAnchor(st, delta, outArea) ==
  LET newWidth == constrainedSize(st.geom.d_pixelSize.w + delta,
                                  st.geom.d_minSize.w, st.geom.d_maxSize.w)
      unlimitedWidth == getSize(st).w
      adjustment == newWidth - unlimitedWidth
      grown == [outArea EXCEPT !.r = @ + adjustment]
      anchored == [st EXCEPT !.frame.d_dragPoint.x = @ + delta]
  IN IF unlimitedWidth = newWidth THEN Moved(st, outArea)
     ELSE IF st.geom.d_horizontalAlignment = "Right"
     THEN Moved(anchored, [grown EXCEPT !.r = @ + adjustment, !.l = @ + adjustment])
     ELSE IF st.geom.d_horizontalAlignment = "Centre"
     THEN Moved(anchored, [grown EXCEPT !.r = @ + Half(adjustment),
                                        !.l = @ + Half(adjustment)])
     ELSE Moved(anchored, grown)

\* FrameWindow::moveRightEdge
moveRightEdge(st, delta, outArea) ==
  LET newWidth == constrainedSize(st.geom.d_pixelSize.w + delta,
                                  st.geom.d_minSize.w, st.geom.d_maxSize.w)
      unlimitedWidth == getSize(st).w
      adjustment == newWidth - unlimitedWidth
      grown == [outArea EXCEPT !.r = @ + adjustment]
      anchored == [st EXCEPT !.frame.d_dragPoint.x =
                               @ + (newWidth - st.geom.d_pixelSize.w)]
  IN IF unlimitedWidth = newWidth THEN Moved(st, outArea)
     ELSE IF st.geom.d_horizontalAlignment = "Right"
     THEN Moved(anchored, [grown EXCEPT !.r = @ + adjustment, !.l = @ + adjustment])
     ELSE IF st.geom.d_horizontalAlignment = "Centre"
     THEN Moved(anchored, [grown EXCEPT !.r = @ + Half(adjustment),
                                        !.l = @ + Half(adjustment)])
     ELSE Moved(anchored, grown)

\* Variant of FrameWindow::moveTopEdge that treats the centre alignment as
\* the top alignment.
moveTopEdge_centreAsTop(st, delta, outArea) ==
  LET newHeight == constrainedSize(st.geom.d_pixelSize.h - delta,
                                   st.geom.d_minSize.h, st.geom.d_maxSize.h)
      unlimitedHeight == getSize(st).h
      adjustment == unlimitedHeight - newHeight
  IN IF unlimitedHeight = newHeight THEN Moved(st, outArea)
     ELSE IF st.geom.d_verticalAlignment = "Bottom"
     THEN Moved(st, [outArea EXCEPT !.b = @ - adjustment])
     ELSE IF st.geom.d_verticalAlignment = "Centre"
     THEN Moved(st, [outArea EXCEPT !.t = @ + Half(adjustment)])
     ELSE Moved(st, [outArea EXCEPT !.t = @ + adjustment])

\* FrameWindow::moveTopEdge
moveTopEdge(st, delta, outArea) ==
  LET newHeight == constrainedSize(st.geom.d_pixelSize.h - delta,
                                   st.geom.d_minSize.h, st.geom.d_maxSize.h)
      unlimitedHeight == getSize(st).h
      adjustment == unlimitedHeight - newHeight
  IN IF unlimitedHeight = newHeight THEN Moved(st, outArea)
     ELSE IF st.geom.d_verticalAlignment = "Bottom"
     THEN Moved(st, [outArea EXCEPT !.b = @ - adjustment])
     ELSE IF st.geom.d_verticalAlignment = "Centre"
     THEN Moved(st, [outArea EXCEPT !.b = @ - Half(adjustment),
                                    !.t = @ + Half(adjustment)])
     ELSE Moved(st, [outArea EXCEPT !.t = @ + adjustment])

\* FrameWindow::moveBottomEdge
moveBottomEdge(st, delta, outArea) ==
  LET newHeight == constrainedSize(st.geom.d_pixelSize.h + delta,
                                   st.geom.d_minSize.h, st.geom.d_maxSize.h)
      unlimitedHeight == getSize(st).h
      adjustment == newHeight - unlimitedHeight
      grown == [outArea EXCEPT !.b = @ + adjustment]
      anchored == [st EXCEPT !.frame.d_dragPoint.y =
                               @ + (newHeight - st.geom.d_pixelSize.h)]
  IN IF unlimitedHeight = newHeight THEN Moved(st, outArea)
     ELSE IF st.geom.d_verticalAlignment = "Bottom"
     THEN Moved(anchored, [grown EXCEPT !.b = @ + adjustment, !.t = @ + adjustment])
     ELSE IF st.geom.d_verticalAlignment = "Centre"
     THEN Moved(anchored, [grown EXCEPT !.b = @ + Half(adjustment),
                                        !.t = @ + Half(adjustment)])
     ELSE Moved(anchored, grown)

\* FrameWindow::isLeftSizingLocation and its siblings (FrameWindow.h)
isLeftSizingLocation(loc) == loc \in {"Left", "TopLeft", "BottomLeft"}

isRightSizingLocation(loc) == loc \in {"Right", "TopRight", "BottomRight"}

isTopSizingLocation(loc) == loc \in {"Top", "TopLeft", "TopRight"}

isBottomSizingLocation(loc) == loc \in {"Bottom", "BottomLeft", "BottomRight"}

\* FrameWindow::setCursorForSizingLocation
setCursorForSizingLocation(st, location) ==
  [st EXCEPT !.ctx.cursorImage =
     CASE location \in {"Top", "Bottom"} -> "d_nsSizingCursor"
       [] location \in {"Left", "Right"} -> "d_ewSizingCursor"
       [] location \in {"TopLeft", "BottomRight"} -> "d_nwseSizingCursor"
       [] location \in {"TopRight", "BottomLeft"} -> "d_neswSizingCursor"
       [] OTHER -> "default"]

RECURSIVE onCursorMove(_, _, _)
RECURSIVE Window_onCursorMove(_, _, _)
RECURSIVE FrameWindow_onCursorMove(_, _, _)

\* Window::onCursorMove
Window_onCursorMove(st, w, e) ==
  LET fired == fireEvent(st, w, "CursorMove")
      parent == st.win.d_parent[w]
  IN IF CursorHandled(fired) = 0 /\ st.win.d_propagatePointerInputs[w]
          /\ parent # NoWindow
     THEN onCursorMove(fired, parent, e)
     ELSE markHandled(fired, "cursor", "Window")

\* FrameWindow::onCursorMove; wndUnderCursor is what
\* getWindowContainingCursor returns.
FrameWindow_onCursorMove(st, e, wndUnderCursor) ==
  LET base == Window_onCursorMove(st, "F", e)
      localCursorPos == screenToWindow("F", e.position)
      dragEdge == getSizingBorderAtPoint(base, base.frame.d_dragPoint)
      deltaX == localCursorPos.x - base.frame.d_dragPoint.x
      horizontal ==
        IF isLeftSizingLocation(dragEdge)
        THEN moveLeftEdge(base, deltaX, base.geom.d_area)
        ELSE IF isRightSizingLocation(dragEdge)
        THEN moveRightEdge(base, deltaX, base.geom.d_area)
        ELSE Moved(base, base.geom.d_area)
      deltaY == localCursorPos.y - horizontal.gui.frame.d_dragPoint.y
      vertical ==
        IF isTopSizingLocation(dragEdge)
        THEN moveTopEdge(horizontal.gui, deltaY, horizontal.outArea)
        ELSE IF isBottomSizingLocation(dragEdge)
        THEN moveBottomEdge(horizontal.gui, deltaY, horizontal.outArea)
        ELSE horizontal
  IN IF wndUnderCursor # "F" /\ wndUnderCursor # "T" THEN base
     ELSE IF ~isSizingEnabled(base) THEN markHandled(base, "cursor", "FrameWindow")
     ELSE IF base.frame.d_beingSized
     THEN markHandled(
            setCursorForSizingLocation(setArea(vertical.gui, vertical.outArea), dragEdge),
            "cursor", "FrameWindow")
     ELSE markHandled(
            setCursorForSizingLocation(base, getSizingBorderAtPoint(base, localCursorPos)),
            "cursor", "FrameWindow")

\* ------------------------------------------------------------------------
\* Enablement, position, hit testing and roll-up
\* ------------------------------------------------------------------------

\* Window::isDisabled, Window::isEffectiveDisabled (Window.h)
isDisabled(st, w) == ~st.win.d_enabled[w]

RECURSIVE isEffectiveDisabled(_, _)
isEffectiveDisabled(st, w) ==
  ~st.win.d_enabled[w]
    \/ (st.win.d_parent[w] # NoWindow /\ isEffectiveDisabled(st, st.win.d_parent[w]))

\* Window::setEnabled
setEnabled(st, w, enabled) == [st EXCEPT !.win.d_enabled[w] = enabled]

\* Element::getPosition, Element::setPosition: the position of the
\* FrameWindow is the top-left corner of its area.
getPosition(st, w) ==
  IF w = "F" THEN Pt(st.geom.d_area.l, st.geom.d_area.t) ELSE st.win.d_position[w]

setPosition(st, w, pos) ==
  IF w = "F"
  THEN setArea(st, Rect(pos.x, pos.y,
                        pos.x + (st.geom.d_area.r - st.geom.d_area.l),
                        pos.y + (st.geom.d_area.b - st.geom.d_area.t)))
  ELSE [st EXCEPT !.win.d_position[w] = pos]

\* Window::getHitTestRect of the FrameWindow, on the display: its parent is
\* at the origin of the display and does not clip it.
getHitTestRect(st) ==
  Rect(st.geom.d_area.l, st.geom.d_area.t,
       st.geom.d_area.l + st.geom.d_pixelSize.w,
       st.geom.d_area.t + st.geom.d_pixelSize.h)

\* Window::isHit: a disabled window is hit only if allow_disabled; an empty
\* hit test rect is never hit.
Window_isHit(st, position, allow_disabled) ==
  IF ~allow_disabled /\ isEffectiveDisabled(st, "F") THEN FALSE
  ELSE IF getHitTestRect(st).r - getHitTestRect(st).l = 0
            \/ getHitTestRect(st).b - getHitTestRect(st).t = 0 THEN FALSE
  ELSE isPointInRectf(getHitTestRect(st), position)

\* Variant of FrameWindow::isHit that does not look at the rolled-up flag.
FrameWindow_isHit_ignoringRollup(st, position, allow_disabled) ==
  Window_isHit(st, position, FALSE)

\* FrameWindow::isHit: the base is called with the position alone, so with
\* allow_disabled at its default, false.
FrameWindow_isHit(st, position, allow_disabled) ==
  Window_isHit(st, position, FALSE) /\ ~st.frame.d_rolledup

\* FrameWindow::isRollupEnabled, FrameWindow::isRolledup
isRollupEnabled(st) == st.frame.d_rollupEnabled

isRolledup(st) == st.frame.d_rolledup

\* What the subscriber of RollupToggled does when it is called: nothing
\* (also when there is no subscriber), or one call on the FrameWindow.
NoHandlerCall == [name |-> "none", arg |-> FALSE]

HandlerCalls ==
  {NoHandlerCall, [name |-> "toggleRollup", arg |-> FALSE]}
    \cup {[name |-> n, arg |-> b] : n \in {"setRolledup", "setRollupEnabled"}, b \in BOOLEAN}

\* how deep the handlers of RollupToggled nest: a handler that runs inside
\* that many handlers makes no call
MaxHandlerDepth == 1

RECURSIVE onRollupToggled(_)
RECURSIVE toggleRollup(_)
RECURSIVE setRollupEnabled(_, _)
RECURSIVE setRolledup(_, _)

\* FrameWindow::onRollupToggled: fires the event, whose subscriber runs
\* before fireEvent returns
onRollupToggled(st) ==
  LET fired == fireEvent(st, "F", "RollupToggled")
      call == fired.frame.handler
      entered == [fired EXCEPT !.frame.handling = @ + 1]
      ran == IF call.name = "toggleRollup" THEN toggleRollup(entered)
             ELSE IF call.name = "setRolledup" THEN setRolledup(entered, call.arg)
             ELSE setRollupEnabled(entered, call.arg)
  IN IF call = NoHandlerCall \/ fired.frame.handling >= MaxHandlerDepth THEN fired
     ELSE [ran EXCEPT !.frame.handling = @ - 1]

\* Variant of FrameWindow::toggleRollup that does not test isRollupEnabled.
toggleRollup_unguarded(st) ==
  onRollupToggled([st EXCEPT !.frame.d_rolledup = ~@])

\* FrameWindow::toggleRollup
toggleRollup(st) ==
  IF isRollupEnabled(st)
  THEN onRollupToggled([st EXCEPT !.frame.d_rolledup = ~@])
  ELSE st

\* FrameWindow::setRollupEnabled
setRollupEnabled(st, setting) ==
  LET unrolled == IF ~setting /\ isRolledup(st) THEN toggleRollup(st) ELSE st
  IN [unrolled EXCEPT !.frame.d_rollupEnabled = setting]

\* FrameWindow::setRolledup
setRolledup(st, val) == IF val # isRolledup(st) THEN toggleRollup(st) ELSE st

\* Window::onSemanticInputEvent
Window_onSemanticInputEvent(st, w, e) == fireEvent(st, w, "SemanticEvent")

\* Variant of Titlebar::onSemanticInputEvent that does not test isDisabled.
Titlebar_onSemanticInputEvent_evenDisabled(st, e) ==
  LET base == Window_onSemanticInputEvent(st, "T", e)
  IN IF e.d_semanticValue = "SelectWord" /\ e.source = "Left"
     THEN markHandled(
            IF IsFrameWindow(base.win.d_parent["T"]) THEN toggleRollup(base) ELSE base,
            "semantic", "Titlebar")
     ELSE base

\* Titlebar::onSemanticInputEvent
Titlebar_onSemanticInputEvent(st, e) ==
  LET base == Window_onSemanticInputEvent(st, "T", e)
  IN IF isDisabled(base, "T") THEN base
     ELSE IF e.d_semanticValue = "SelectWord" /\ e.source = "Left"
     THEN markHandled(
            IF IsFrameWindow(base.win.d_parent["T"]) THEN toggleRollup(base) ELSE base,
            "semantic", "Titlebar")
     ELSE base

\* Variant of Titlebar::onCursorMove that moves the parent whatever its
\* class.
Titlebar_onCursorMove_anyParent(st, e) ==
  LET base == Window_onCursorMove(st, "T", e)
      parent == base.win.d_parent["T"]
      local == screenToWindow("T", e.position)
      delta == Pt(local.x - base.titlebar.d_dragPoint.x,
                  local.y - base.titlebar.d_dragPoint.y)
      old == getPosition(base, parent)
  IN IF base.titlebar.d_dragging /\ parent # NoWindow
     THEN markHandled(setPosition(base, parent, Pt(old.x + delta.x, old.y + delta.y)),
                      "cursor", "Titlebar")
     ELSE base

\* Titlebar::onCursorMove
Titlebar_onCursorMove(st, e) ==
  LET base == Window_onCursorMove(st, "T", e)
      parent == base.win.d_parent["T"]
      local == screenToWindow("T", e.position)
      delta == Pt(local.x - base.titlebar.d_dragPoint.x,
                  local.y - base.titlebar.d_dragPoint.y)
      old == getPosition(base, parent)
  IN IF base.titlebar.d_dragging /\ parent # NoWindow
     THEN markHandled(
            IF IsFrameWindow(parent)
            THEN setPosition(base, parent, Pt(old.x + delta.x, old.y + delta.y))
            ELSE base,
            "cursor", "Titlebar")
     ELSE base

\* GUIContext::getWindowContainingCursor: the Titlebar lies over the top of
\* its parent; a cursor over neither is over the window O.
getWindowContainingCursor(st, position) ==
  IF isPointInRectf(Rect(TitlebarPos.x, TitlebarPos.y,
                         st.geom.d_pixelSize.w - TitlebarPos.x,
                         TitlebarPos.y + TitlebarHeight), position) THEN "T"
  ELSE IF isPointInRectf(getSizingRect(st), position) THEN "F"
  ELSE "O"

\* the virtual call w->onCursorMove(e)
onCursorMove(st, w, e) ==
  CASE w = "F" ->
         FrameWindow_onCursorMove(st, e, getWindowContainingCursor(st, e.position))
    [] w = "T" -> Titlebar_onCursorMove(st, e)
    [] OTHER -> Window_onCursorMove(st, w, e)

\* ------------------------------------------------------------------------
\* OpenGL3Renderer (src/cegui/src/RendererModules/OpenGL/GL3Renderer.cpp):
\* the System singleton it bootstraps, and the two shared vertex buffers it
\* uploads the geometry buffers into.  Vertex data are counted in floats,
\* capacities in bytes.
\* ------------------------------------------------------------------------
FloatBytes == 4

\* floats per vertex of the layout that goes to the textured buffer
TexturedElementCount == 9

\* floats per vertex of the coloured layout, the stride of the solid buffer
ColouredElementCount == 7

\* position + colour + texture coordinates, position + colour, and a custom
\* layout of position + texture coordinates
ElementCounts == {TexturedElementCount, ColouredElementCount, 5}

GeometryBuffers == {"A", "B", "C"}

RECURSIVE VectorSize(_)
\* std::vector<float>::size() of a vector kept as the runs of floats copied
\* from each geometry buffer
VectorSize(v) == IF v = <<>> THEN 0 ELSE Head(v).floats + VectorSize(Tail(v))

NoCall ==
  [name |-> "none", arg |-> <<>>, result |-> "none", value |-> "none", gl |-> <<>>,
   changer |-> <<>>]

\* The start of a call: nothing thrown, no OpenGL call made yet.
Enter(r, name, arg) ==
  [r EXCEPT !.call = [name |-> name, arg |-> arg, result |-> "ok", value |-> "none",
                      gl |-> <<>>, changer |-> <<>>]]

throw(r, exception) == [r EXCEPT !.call.result = exception]

\* An OpenGL call on the buffer bound to GL_ARRAY_BUFFER, writing size bytes
\* from offset on.
glCall(r, name, offset, size) ==
  [r EXCEPT !.call.gl = Append(@, [name |-> name, target |-> r.arrayBufferBinding,
                                   offset |-> offset, size |-> size])]

\* ------------------------------------------------------------------------
\* The state-change wrapper (d_openGLStateChanger) and the blend mode.  The
\* wrapper keeps the value it last set for each state it tracks and makes the
\* OpenGL call only when the requested value differs; reset() forgets them.
\* context is the state of the OpenGL context, which other users of the
\* context can change without the wrapper's knowledge.
\* ------------------------------------------------------------------------
BlendModes == {"Invalid", "Normal", "RttPremultiplied"}

Capabilities == {"GL_SCISSOR_TEST", "GL_BLEND", "GL_CULL_FACE", "GL_DEPTH_TEST"}

Bindings ==
  {"activeTexture", "GL_TEXTURE_2D", "useProgram", "bindVertexArray",
   "GL_ELEMENT_ARRAY_BUFFER", "GL_ARRAY_BUFFER"}

TrackedStates == Capabilities \cup Bindings \cup {"blendFunc"}

\* glBlendFunc(GL_ONE, GL_ONE_MINUS_SRC_ALPHA)
PremultipliedBlendFunc == "GL_ONE, GL_ONE_MINUS_SRC_ALPHA"

\* glBlendFuncSeparate(GL_SRC_ALPHA, GL_ONE_MINUS_SRC_ALPHA,
\*                     GL_ONE_MINUS_DST_ALPHA, GL_ONE)
NormalBlendFunc == "GL_SRC_ALPHA, GL_ONE_MINUS_SRC_ALPHA, GL_ONE_MINUS_DST_ALPHA, GL_ONE"

\* glBlendFunc(GL_ONE, GL_ZERO), the default of OpenGL
DefaultBlendFunc == "GL_ONE, GL_ZERO"

\* the wrapper of a new renderer, and the wrapper after reset()
NothingCached == [s \in TrackedStates |-> "unknown"]

\* the state of a new OpenGL context
DefaultContext ==
  [s \in TrackedStates |->
     IF s \in Capabilities THEN "disabled"
     ELSE IF s = "blendFunc" THEN DefaultBlendFunc ELSE "0"]

\* A call of the wrapper: noted with whether it reached OpenGL.
changeState(r, name, state, value) ==
  LET redundant == r.d_openGLStateChanger[state] = value
  IN [r EXCEPT !.d_openGLStateChanger[state] = value,
               !.context[state] = IF redundant THEN @ ELSE value,
               !.arrayBufferBinding =
                  IF state = "GL_ARRAY_BUFFER" /\ ~redundant
                  THEN (IF value = "0" THEN "none" ELSE value) ELSE @,
               !.call.changer = Append(@, [name |-> name, state |-> state,
                                           value |-> value, issued |-> ~redundant])]

\* OpenGLBaseStateChangeWrapper::reset
StateChanger_reset(r) ==
  [r EXCEPT !.d_openGLStateChanger = NothingCached,
            !.call.changer = Append(@, [name |-> "reset", state |-> "all",
                                        value |-> "unknown", issued |-> FALSE])]

enable(r, capability) == changeState(r, "enable", capability, "enabled")

disable(r, capability) == changeState(r, "disable", capability, "disabled")

blendFunc(r, factors) == changeState(r, "blendFunc", "blendFunc", factors)

blendFuncSeparate(r, factors) == changeState(r, "blendFuncSeparate", "blendFunc", factors)

bindBuffer(r, target, buffer) == changeState(r, "bindBuffer", target, buffer)

\* activeTexture(0), bindTexture(target, 0), useProgram(0), bindVertexArray(0),
\* bindBuffer(target, 0)
bindZero(r, name, state) == changeState(r, name, state, "0")

\* No System, no renderer; layout tells how the application will build its
\* geometry buffers.
NoSystem(layout) ==
  [systems |-> 0, liveRenderers |-> 0, liveProviders |-> 0, sized |-> FALSE,
   d_vertex_data_solid |-> <<>>, d_vertex_data_textured |-> <<>>,
   d_verticesSolidVBOSize |-> 0, d_verticesTexturedVBOSize |-> 0,
   arrayBufferBinding |-> "none",
   d_activeBlendMode |-> "Invalid", d_isStateResettingEnabled |-> TRUE,
   d_openGLStateChanger |-> NothingCached, context |-> DefaultContext,
   layout |-> layout,
   vertices |-> [b \in GeometryBuffers |-> 0],
   d_verticesVBOPosition |-> [b \in GeometryBuffers |-> 0],
   call |-> NoCall]

\* OpenGL3Renderer::create and the constructors: init() creates the two
\* shared buffers empty and leaves no buffer bound.
create(r, sized) ==
  [r EXCEPT !.liveRenderers = @ + 1, !.sized = sized,
            !.d_vertex_data_solid = <<>>, !.d_vertex_data_textured = <<>>,
            !.d_verticesSolidVBOSize = 0, !.d_verticesTexturedVBOSize = 0,
            !.arrayBufferBinding = "none",
            !.d_activeBlendMode = "Invalid", !.d_isStateResettingEnabled = TRUE,
            !.d_openGLStateChanger = [NothingCached EXCEPT !["GL_ARRAY_BUFFER"] = "0",
                                                           !["bindVertexArray"] = "0"],
            !.context["GL_ARRAY_BUFFER"] = "0", !.context["bindVertexArray"] = "0"]

\* OpenGL3Renderer::destroy and the destructor; the geometry buffers of the
\* renderer go with it.
destroy(r) ==
  [r EXCEPT !.liveRenderers = @ - 1, !.sized = FALSE,
            !.d_vertex_data_solid = <<>>, !.d_vertex_data_textured = <<>>,
            !.d_verticesSolidVBOSize = 0, !.d_verticesTexturedVBOSize = 0,
            !.arrayBufferBinding = "none",
            !.d_activeBlendMode = "Invalid", !.d_isStateResettingEnabled = TRUE,
            !.d_openGLStateChanger = NothingCached,
            !.context["GL_ARRAY_BUFFER"] = "0", !.context["bindVertexArray"] = "0",
            !.vertices = [b \in GeometryBuffers |-> 0],
            !.d_verticesVBOPosition = [b \in GeometryBuffers |-> 0]]

\* System::getSingletonPtr() is not null
SystemExists(r) == r.systems > 0

\* System::create, System::destroy
System_create(r) == [r EXCEPT !.systems = @ + 1]

System_destroy(r) == [r EXCEPT !.systems = @ - 1]

\* Variant of bootstrapSystem that creates the renderer and the resource
\* provider before it looks for an existing System.
bootstrapSystem_createFirst(r, sized) ==
  LET made == [create(r, sized) EXCEPT !.liveProviders = @ + 1]
  IN IF SystemExists(r) THEN throw(made, "InvalidRequest") ELSE System_create(made)

\* OpenGL3Renderer::bootstrapSystem, both overloads
bootstrapSystem(r, sized) ==
  IF SystemExists(r) THEN throw(r, "InvalidRequest")
  ELSE System_create([create(r, sized) EXCEPT !.liveProviders = @ + 1])

\* OpenGL3Renderer::destroySystem
destroySystem(r) ==
  IF ~SystemExists(r) THEN throw(r, "InvalidRequest")
  ELSE destroy([System_destroy(r) EXCEPT !.liveProviders = @ - 1])

\* OpenGL3GeometryBuffer::appendGeometry of whole vertices, and reset
appendGeometry(r, buffer, count) == [r EXCEPT !.vertices[buffer] = @ + count]

reset(r, buffer) == [r EXCEPT !.vertices[buffer] = 0]

\* buffer->getVertexData().size()
DataSize(r, buffer) == r.vertices[buffer] * r.layout[buffer]

RECURSIVE addGeometry(_, _)
\* OpenGL3Renderer::addGeometry
addGeometry(r, buffers) ==
  IF buffers = <<>> THEN r
  ELSE
    LET buffer == Head(buffers)
        element_count == r.layout[buffer]
        textured == element_count = TexturedElementCount
        destSize == VectorSize(IF textured THEN r.d_vertex_data_textured
                               ELSE r.d_vertex_data_solid)
        run == [buffer |-> buffer, floats |-> DataSize(r, buffer)]
        copied ==
          [r EXCEPT !.d_verticesVBOPosition[buffer] = destSize \div element_count,
                    !.d_vertex_data_textured = IF textured THEN Append(@, run) ELSE @,
                    !.d_vertex_data_solid = IF textured THEN @ ELSE Append(@, run)]
    IN addGeometry(IF DataSize(r, buffer) = 0 THEN r ELSE copied, Tail(buffers))

VertexData(r, vbo) ==
  IF vbo = "textured" THEN r.d_vertex_data_textured ELSE r.d_vertex_data_solid

MaxSize(r, vbo) ==
  IF vbo = "textured" THEN r.d_verticesTexturedVBOSize ELSE r.d_verticesSolidVBOSize

SetMaxSize(r, vbo, size) ==
  IF vbo = "textured" THEN [r EXCEPT !.d_verticesTexturedVBOSize = size]
  ELSE [r EXCEPT !.d_verticesSolidVBOSize = size]

\* Variant of uploadVertexData that reallocates on every upload.
uploadVertexData_alwaysRealloc(r, vbo) ==
  LET bytes == VectorSize(VertexData(r, vbo)) * FloatBytes
      bound == bindBuffer(r, "GL_ARRAY_BUFFER", vbo)
  IN IF VertexData(r, vbo) = <<>> THEN r
     ELSE SetMaxSize(glCall(bound, "glBufferData", 0, bytes), vbo, bytes)

\* Variant of uploadVertexData without the test for empty data.
uploadVertexData_evenEmpty(r, vbo) ==
  LET bytes == VectorSize(VertexData(r, vbo)) * FloatBytes
      bound == bindBuffer(r, "GL_ARRAY_BUFFER", vbo)
  IN IF bytes > MaxSize(r, vbo)
     THEN SetMaxSize(glCall(bound, "glBufferData", 0, bytes), vbo, bytes)
     ELSE glCall(bound, "glBufferSubData", 0, bytes)

\* OpenGL3Renderer::uploadVertexData(vertex_data, vbo_id, vbo_max_size), for
\* byte sizes that fit a GLuint
uploadVertexData(r, vbo) ==
  LET bytes == VectorSize(VertexData(r, vbo)) * FloatBytes
      bound == bindBuffer(r, "GL_ARRAY_BUFFER", vbo)
  IN IF VertexData(r, vbo) = <<>> THEN r
     ELSE IF bytes > MaxSize(r, vbo)
     THEN SetMaxSize(glCall(bound, "glBufferData", 0, bytes), vbo, bytes)
     ELSE glCall(bound, "glBufferSubData", 0, bytes)

\* OpenGL3Renderer::uploadBuffers(const std::vector<GeometryBuffer*>&)
uploadBuffers(r, buffers) ==
  LET cleared == [r EXCEPT !.d_vertex_data_solid = <<>>,
                           !.d_vertex_data_textured = <<>>]
  IN uploadVertexData(uploadVertexData(addGeometry(cleared, buffers), "solid"),
                      "textured")

\* Variant of setupRenderingBlendMode that ignores force.
setupRenderingBlendMode_neverForced(r, mode, force) ==
  IF r.d_activeBlendMode = mode THEN r
  ELSE LET set == [r EXCEPT !.d_activeBlendMode = mode]
       IN IF set.d_activeBlendMode = "RttPremultiplied"
          THEN blendFunc(set, PremultipliedBlendFunc)
          ELSE blendFuncSeparate(set, NormalBlendFunc)

\* OpenGL3Renderer::setupRenderingBlendMode
setupRenderingBlendMode(r, mode, force) ==
  IF r.d_activeBlendMode = mode /\ ~force THEN r
  ELSE LET set == [r EXCEPT !.d_activeBlendMode = mode]
       IN IF set.d_activeBlendMode = "RttPremultiplied"
          THEN blendFunc(set, PremultipliedBlendFunc)
          ELSE blendFuncSeparate(set, NormalBlendFunc)

\* OpenGL3Renderer::restoreChangedStatesToDefaults; glPolygonMode is not a
\* state of the wrapper.
restoreChangedStatesToDefaults(r, isAfterRendering) ==
  LET textures == bindZero(bindZero(r, "activeTexture", "activeTexture"),
                           "bindTexture", "GL_TEXTURE_2D")
      tests == disable(disable(textures, "GL_CULL_FACE"), "GL_DEPTH_TEST")
      after == IF isAfterRendering
               THEN disable(disable(tests, "GL_BLEND"), "GL_SCISSOR_TEST")
               ELSE tests
      blend == blendFunc(after, DefaultBlendFunc)
      objects == bindZero(bindZero(blend, "useProgram", "useProgram"),
                          "bindVertexArray", "bindVertexArray")
  IN bindZero(bindZero(objects, "bindBuffer", "GL_ELEMENT_ARRAY_BUFFER"),
              "bindBuffer", "GL_ARRAY_BUFFER")

\* Variant of beginRendering that does not reset the wrapper.
beginRendering_noReset(r) ==
  LET restored == IF r.d_isStateResettingEnabled
                  THEN restoreChangedStatesToDefaults(r, FALSE)
                  ELSE r
      enabled == enable(enable(restored, "GL_SCISSOR_TEST"), "GL_BLEND")
  IN setupRenderingBlendMode(enabled, "Normal", TRUE)

\* OpenGL3Renderer::beginRendering
beginRendering(r) ==
  LET wrapper == StateChanger_reset(r)
      restored == IF r.d_isStateResettingEnabled
                  THEN restoreChangedStatesToDefaults(wrapper, FALSE)
                  ELSE wrapper
      enabled == enable(enable(restored, "GL_SCISSOR_TEST"), "GL_BLEND")
  IN setupRenderingBlendMode(enabled, "Normal", TRUE)

\* OpenGL3Renderer::endRendering
endRendering(r) ==
  LET restored == IF r.d_isStateResettingEnabled
                  THEN restoreChangedStatesToDefaults(r, TRUE)
                  ELSE r
  IN bindZero(restored, "bindVertexArray", "bindVertexArray")

\* the values of DefaultShaderType a caller can pass: the two shader types
\* and the enumeration's count
DefaultShaderTypes == {"Textured", "Solid", "Count"}

\* OpenGL3Renderer::createRenderMaterial: the shader wrapper of the new
\* material is the value returned.
createRenderMaterial(r, shaderType) ==
  IF shaderType = "Textured"
  THEN [r EXCEPT !.call.value = "d_shaderWrapperTextured"]
  ELSE IF shaderType = "Solid"
  THEN [r EXCEPT !.call.value = "d_shaderWrapperSolid"]
  ELSE throw(r, "RendererException")

\* OpenGLRendererBase::setStateResettingEnabled
setStateResettingEnabled(r, setting) == [r EXCEPT !.d_isStateResettingEnabled = setting]

\* No renderer, for the specifications that do not exercise it.
RendererIdle == renderer = NoSystem([b \in GeometryBuffers |-> TexturedElementCount])

\* ------------------------------------------------------------------------
\* InventoryItem (src/samples/Inventory/InventoryItem.cpp): a DragContainer
\* with a grid of solid cells, dragged over an InventoryReceiver "V" and a
\* plain window "W".  Lengths are pixels.  DragContainer, InventoryBase and
\* InventoryReceiver are modelled from the specification.
\* ------------------------------------------------------------------------
DropTargets == {"none", "W", "V"}

\* the receiver: a grid of 3 x 2 squares of 10 pixels at (100, 0)
ReceiverGrid == [left |-> 100, top |-> 0, square |-> 10, width |-> 3, height |-> 2]

\* the plain window
PlainWindowRect == Rect(60, 0, 90, 20)

\* the item: 2 x 1 squares, both solid
ItemContent == [width |-> 2, height |-> 1, solid |-> {<<0, 0>>, <<1, 0>>}]

\* the point of the item the cursor holds it at
ItemDragPoint == Pt(3, 3)

InventoryBase_gridBasePixelRect(grid) ==
  Rect(grid.left, grid.top, grid.left + grid.width * grid.square,
       grid.top + grid.height * grid.square)

\* InventoryBase::gridXLocationFromPixelPosition, gridYLocationFromPixelPosition
gridXLocationFromPixelPosition(grid, x_pixel_location) ==
  LET area == InventoryBase_gridBasePixelRect(grid)
  IN IF x_pixel_location < area.l \/ x_pixel_location >= area.r THEN -1
     ELSE (x_pixel_location - area.l) \div grid.square

gridYLocationFromPixelPosition(grid, y_pixel_location) ==
  LET area == InventoryBase_gridBasePixelRect(grid)
  IN IF y_pixel_location < area.t \/ y_pixel_location >= area.b THEN -1
     ELSE (y_pixel_location - area.t) \div grid.square

\* InventoryItem::isSolidAtLocation
isSolidAtLocation(inv, x, y) == <<x, y>> \in inv.d_content.solid

\* InventoryReceiver::itemWillFitAtLocation: inside the grid, and no solid
\* cell of the item on an occupied cell
itemWillFitAtLocation(inv, x, y) ==
  /\ x >= 0
  /\ y >= 0
  /\ x + inv.d_content.width <= ReceiverGrid.width
  /\ y + inv.d_content.height <= ReceiverGrid.height
  /\ \A item_x \in 0..(inv.d_content.width - 1), item_y \in 0..(inv.d_content.height - 1) :
       ~(<<item_x + x, item_y + y>> \in inv.occupied /\ isSolidAtLocation(inv, item_x, item_y))

\* dynamic_cast<InventoryReceiver*>(d_dropTarget) != nullptr
IsInventoryReceiver(window) == window = "V"

\* the grid cell of the receiver InventoryItem::onMoved looks at: that of
\* the item's top-left corner moved by half a square
ReceiverCell(inv) ==
  [x |-> gridXLocationFromPixelPosition(ReceiverGrid, inv.position.x + ReceiverGrid.square \div 2),
   y |-> gridYLocationFromPixelPosition(ReceiverGrid, inv.position.y + ReceiverGrid.square \div 2)]

\* InventoryItem::onMoved
InventoryItem_onMoved(inv) ==
  IF IsInventoryReceiver(inv.d_dropTarget)
  THEN [inv EXCEPT !.d_validDropTarget =
          itemWillFitAtLocation(inv, ReceiverCell(inv).x, ReceiverCell(inv).y)]
  ELSE [inv EXCEPT !.d_validDropTarget = FALSE]

\* DragContainer::onDragDropTargetChanged
DragContainer_onDragDropTargetChanged(inv, window) == [inv EXCEPT !.d_dropTarget = window]

\* Variant of onDragDropTargetChanged that takes every target for valid.
InventoryItem_onDragDropTargetChanged_anyTarget(inv, window) ==
  LET changed == DragContainer_onDragDropTargetChanged(inv, window)
  IN [changed EXCEPT !.d_validDropTarget = changed.d_dropTarget # "none",
                     !.call.targetChanged = TRUE]

\* InventoryItem::onDragDropTargetChanged
InventoryItem_onDragDropTargetChanged(inv, window) ==
  LET changed == DragContainer_onDragDropTargetChanged(inv, window)
  IN [changed EXCEPT !.d_validDropTarget = IsInventoryReceiver(changed.d_dropTarget),
                     !.call.targetChanged = TRUE]

\* the drag-drop target under the cursor, which holds the item at d_dragPoint
TargetAtCursor(inv) ==
  LET cursor == Pt(inv.position.x + inv.d_dragPoint.x, inv.position.y + inv.d_dragPoint.y)
  IN IF isPointInRectf(InventoryBase_gridBasePixelRect(ReceiverGrid), cursor) THEN "V"
     ELSE IF isPointInRectf(PlainWindowRect, cursor) THEN "W"
     ELSE "none"

\* Element::setPosition, which notifies the item with onMoved
InventoryItem_setPosition(inv, pos) ==
  IF pos = inv.position THEN inv
  ELSE InventoryItem_onMoved([inv EXCEPT !.position = pos, !.call.moved = TRUE])

\* DragContainer::onDragPositionChanged
onDragPositionChanged(inv) ==
  IF TargetAtCursor(inv) # inv.d_dropTarget
  THEN InventoryItem_onDragDropTargetChanged(inv, TargetAtCursor(inv))
  ELSE inv

\* DragContainer::doDragging: the item follows the cursor, then looks for
\* the target under it
doDragging(inv, pos) == onDragPositionChanged(InventoryItem_setPosition(inv, pos))

\* InventoryItem::currentDropTargetIsValid
currentDropTargetIsValid(inv) == inv.d_validDropTarget

\* InventoryItem::InventoryItem, at a place away from both windows; occupied
\* are the cells of the receiver other items lie on
NewInventoryItem(occupied) ==
  [d_validDropTarget |-> FALSE, d_receiverLocationX |-> -1, d_receiverLocationY |-> -1,
   d_dropTarget |-> "none", d_dragging |-> FALSE, d_dragPoint |-> Pt(0, 0),
   position |-> Pt(70, 30), d_content |-> ItemContent, occupied |-> occupied,
   call |-> [name |-> "none", moved |-> FALSE, targetChanged |-> FALSE]]

InventoryCall(inv, name) ==
  [inv EXCEPT !.call = [name |-> name, moved |-> FALSE, targetChanged |-> FALSE]]

InventoryIdle == inventory = NewInventoryItem({})

\* ------------------------------------------------------------------------
\* FormNavigationDemo (src/samples/FormNavigation/Sample_FormNavigation.cpp):
\* three edit boxes, a checkbox, the Confirm and the Reset button.
\* ------------------------------------------------------------------------
Editboxes == 1..3

\* what the user types into an edit box
EditboxTexts == {"", "Conan", "7"}

\* the widgets the handlers change: the texts of the edit boxes, whether
\* the checkbox is selected, whether the Confirm button is enabled
FormWidgets(f) ==
  [d_editboxes |-> f.d_editboxes, d_isGameMasterCheckbox |-> f.d_isGameMasterCheckbox,
   d_confirmButton |-> f.d_confirmButton]

NoClick == [button |-> "none", from |-> <<>>]

\* FormNavigationDemo::createForm; clicked is the button last clicked and
\* the widgets as they were then
NewForm ==
  [d_editboxes |-> [i \in Editboxes |-> ""], d_isGameMasterCheckbox |-> FALSE,
   d_confirmButton |-> TRUE, clicked |-> NoClick]

\* Variant of resetForm whose loop stops before the last edit box.
resetForm_skipsLastEditbox(f) ==
  [f EXCEPT !.d_editboxes = [i \in Editboxes |-> IF i < 3 THEN "" ELSE @[i]],
            !.d_isGameMasterCheckbox = FALSE,
            !.d_confirmButton = TRUE]

\* FormNavigationDemo::resetForm: setText("") on every edit box,
\* setSelected(false), setEnabled(true)
resetForm(f) ==
  [f EXCEPT !.d_editboxes = [i \in Editboxes |-> ""],
            !.d_isGameMasterCheckbox = FALSE,
            !.d_confirmButton = TRUE]

\* FormNavigationDemo::disableConfirmButton
disableConfirmButton(f) == [f EXCEPT !.d_confirmButton = FALSE]

\* PushButton::EventClicked reaches the subscriber of an enabled button only
clickConfirm(f) ==
  LET clicked == [f EXCEPT !.clicked = [button |-> "Confirm", from |-> FormWidgets(f)]]
  IN IF f.d_confirmButton THEN disableConfirmButton(clicked) ELSE clicked

clickReset(f) ==
  resetForm([f EXCEPT !.clicked = [button |-> "Reset", from |-> FormWidgets(f)]])

\* Editbox::setText by the user's typing, ToggleButton::setSelected by a
\* click on the checkbox
typeText(f, i, text) == [f EXCEPT !.d_editboxes[i] = text, !.clicked = NoClick]

toggleCheckbox(f) == [f EXCEPT !.d_isGameMasterCheckbox = ~@, !.clicked = NoClick]

FormIdle == form = NewForm

\* ------------------------------------------------------------------------
\* WidgetsSample's event log (src/samples/Widgets/Widgets.cpp).  The text of
\* the log is kept as the lengths of its lines, each line counted with the
\* "\n" that ends it; the first may be the rest of a line cut at its front.
\* ------------------------------------------------------------------------
\* the length of the text the log keeps
LogCap == 2056

RECURSIVE length(_)
\* String::length
length(text) == IF text = <<>> THEN 0 ELSE Head(text) + length(Tail(text))

RECURSIVE DropFront(_, _)
\* String::substr(pos, npos): the text without its first pos characters
DropFront(text, pos) ==
  IF pos = 0 \/ text = <<>> THEN text
  ELSE IF pos >= Head(text) THEN DropFront(Tail(text), pos - Head(text))
  ELSE <<Head(text) - pos>> \o Tail(text)

\* "[colour='FFFFBBBB']" + d_eventName + "[colour='FFFFFFFF']" + " (" +
\* the kind of the event args + ")" + "\n": 42 characters and the two names
LogMessage(eventName, kind) == <<42 + eventName + kind>>

\* WidgetsSample::logFiredEvent, for texts shorter than 2^31 characters
logFiredEvent(w, logMessage) ==
  IF ~w.selected THEN w
  ELSE
    LET appended == w.d_widgetsEventsLog \o logMessage
        pos == Max2(length(appended) - LogCap, 0)
        len == Min2(length(appended), LogCap)
        kept == DropFront(appended, pos)
        eventsLog == IF len = LogCap /\ kept # <<>>
                     THEN <<1>> \o Tail(kept)
                     ELSE kept
    IN [w EXCEPT !.d_widgetsEventsLog = eventsLog,
                 !.call = [name |-> "logFiredEvent", appended |-> length(appended),
                           before |-> w.d_widgetsEventsLog]]

\* WidgetsSample::handleWidgetEventFired
handleWidgetEventFired(w, eventName, logMessage) ==
  IF eventName \in {"CursorMove", "Updated"}
  THEN [w EXCEPT !.call = [name |-> eventName, appended |-> 0, before |-> <<>>]]
  ELSE logFiredEvent([w EXCEPT !.call = [name |-> eventName, appended |-> 0,
                                          before |-> <<>>]],
                     logMessage)

\* EventHandlerObject::handleEvent: chars is the length of the event's
\* name, kind that of the name of its arguments' class
handleEvent(w, e) == handleWidgetEventFired(w, e.name, LogMessage(e.chars, e.kind))

\* ------------------------------------------------------------------------
\* WidgetsSample's widget display and property inspector.  A widget root is
\* named by its type; "null" is nullptr, "none" an empty selection.
\* ------------------------------------------------------------------------
\* the number of properties of a sample widget
NProperties == 2

\* the types the selector offers
WidgetTypes == {"Button", "ProgressBar", "Tooltip"}

\* what reading one property's value does: it gives a value, the property
\* is not readable, or the read throws
Retrievals == {"value", "notReadable", "InvalidRequestException", "UnknownObjectException"}

\* d_widgetPropertiesMap[root].d_propertyList, the same for every type
PropertyList == [i \in 1..NProperties |-> i]

\* dynamic_cast<CEGUI::Tooltip*>
IsTooltip(root) == root = "Tooltip"

\* WidgetsSample::retrieveOrCreateWidgetWindow: the window of a type is
\* created once and kept in d_widgetsMap
retrieveOrCreateWidgetWindow(w, widgetTypeString) ==
  [w EXCEPT !.d_widgetsMap = @ \cup {widgetTypeString}]

\* WidgetsSample::handleSpecialWindowCases
handleSpecialWindowCases(w, widgetWindowRoot) ==
  IF IsTooltip(w.d_currentlyDisplayedWidgetRoot)
  THEN [w EXCEPT !.tooltip = w.d_currentlyDisplayedWidgetRoot,
                 !.children = @ \ {widgetWindowRoot},
                 !.d_currentlyDisplayedWidgetRoot = "null"]
  ELSE [w EXCEPT !.tooltip = "null"]

\* the row of property i with nothing in its value column
EmptyRow(i) == [name |-> PropertyList[i], value |-> FALSE]

RECURSIVE fillRows(_, _, _)
\* the loop of fillWidgetPropertiesDisplayWindow from property i on: the
\* catch clause names InvalidRequestException, any other exception leaves
\* the loop and the function
fillRows(rows, i, retrieval) ==
  IF i > NProperties THEN [rows |-> rows, thrown |-> "none"]
  ELSE IF retrieval[i] = "value"
       THEN fillRows(Append(rows, [EmptyRow(i) EXCEPT !.value = TRUE]), i + 1, retrieval)
  ELSE IF retrieval[i] \in {"notReadable", "InvalidRequestException"}
       THEN fillRows(Append(rows, EmptyRow(i)), i + 1, retrieval)
  ELSE [rows |-> Append(rows, EmptyRow(i)), thrown |-> retrieval[i]]

\* WidgetsSample::fillWidgetPropertiesDisplayWindow
fillWidgetPropertiesDisplayWindow(w, retrieval) ==
  LET filled == fillRows(<<>>, 1, retrieval)
  IN [w EXCEPT !.d_widgetPropertiesDisplayWindow = filled.rows,
               !.thrown = filled.thrown,
               !.retrieval = retrieval]

\* Variant of handleWidgetSelectionChanged that leaves the previous root
\* attached.
handleWidgetSelectionChanged_keepsPrevious(w, item, retrieval) ==
  LET chosen == [w EXCEPT !.selected = item # "none", !.item = item, !.thrown = "none",
                          !.call = [name |-> "handleWidgetSelectionChanged",
                                    appended |-> 0, before |-> <<>>]]
  IN IF item = "none" THEN chosen
     ELSE LET cleared == [chosen EXCEPT !.d_widgetsEventsLog = <<>>, !.phase = 1]
              created == retrieveOrCreateWidgetWindow(cleared, item)
              shown == [created EXCEPT !.children = @ \cup {item},
                                       !.d_currentlyDisplayedWidgetRoot = item]
          IN fillWidgetPropertiesDisplayWindow(handleSpecialWindowCases(shown, item),
                                               retrieval)

\* the selection of the list changes to item, and
\* WidgetsSample::handleWidgetSelectionChanged runs; a skin is selected
\* since initialise
handleWidgetSelectionChanged(w, item, retrieval) ==
  LET chosen == [w EXCEPT !.selected = item # "none", !.item = item, !.thrown = "none",
                          !.call = [name |-> "handleWidgetSelectionChanged",
                                    appended |-> 0, before |-> <<>>]]
  IN IF item = "none" THEN chosen
     ELSE LET cleared == [chosen EXCEPT !.d_widgetsEventsLog = <<>>, !.phase = 1]
              removed == IF cleared.d_currentlyDisplayedWidgetRoot # "null"
                         THEN [cleared EXCEPT !.children =
                                 @ \ {cleared.d_currentlyDisplayedWidgetRoot}]
                         ELSE cleared
              created == retrieveOrCreateWidgetWindow(removed, item)
              shown == [created EXCEPT !.children = @ \cup {item},
                                       !.d_currentlyDisplayedWidgetRoot = item]
          IN fillWidgetPropertiesDisplayWindow(handleSpecialWindowCases(shown, item),
                                               retrieval)

\* every property gives its value
AllReadable == [i \in 1..NProperties |-> "value"]

\* WidgetsSample::initialise before the first selection: an empty log,
\* nothing displayed, no widget created
NewWidgetsSample ==
  [d_widgetsEventsLog |-> <<>>, selected |-> FALSE, item |-> "none", phase |-> 1,
   d_currentlyDisplayedWidgetRoot |-> "null", children |-> {}, tooltip |-> "null",
   d_widgetsMap |-> {}, d_widgetPropertiesDisplayWindow |-> <<>>,
   thrown |-> "none", retrieval |-> AllReadable,
   call |-> [name |-> "none", appended |-> 0, before |-> <<>>]]

WidgetsIdle == widgets = NewWidgetsSample

\* No sample running, for the specifications that do not exercise them.
SamplesIdle == InventoryIdle /\ FormIdle /\ WidgetsIdle

\* ------------------------------------------------------------------------
\* The capture and drag state machine: a FrameWindow of fixed geometry
\* ------------------------------------------------------------------------
FramePixelSize == [w |-> Px(40), h |-> Px(30)]

FrameGeom ==
  [d_area |-> Rect(Px(30), Px(20), Px(30) + FramePixelSize.w, Px(20) + FramePixelSize.h),
   d_pixelSize |-> FramePixelSize,
   d_minSize |-> [w |-> 0, h |-> 0],
   d_maxSize |-> [w |-> 0, h |-> 0],
   d_horizontalAlignment |-> "Left",
   d_verticalAlignment |-> "Top"]

\* Where the cursor is pressed: on the Titlebar over the frame's top-left
\* corner, and inside the Titlebar.
PressPoints == {Pt(Px(4), Px(4)), Pt(Px(20), Px(10))}

\* Where the cursor is released: over the Titlebar and over the frame.
ActivatePoints == {Pt(Px(20), Px(10)), Pt(Px(36), Px(20))}


\* The Titlebar spans the top of the frame, inside a margin.
TitlebarRect(st) ==
  Rect(TitlebarPos.x, TitlebarPos.y,
       st.geom.d_pixelSize.w - TitlebarPos.x, TitlebarPos.y + TitlebarHeight)

\* The window the context sends cursor input to: the capture window, else
\* the window under the cursor.
Target(st, position) ==
  IF getCaptureWindow(st) # NoWindow THEN getCaptureWindow(st)
  ELSE IF isPointInRectf(TitlebarRect(st), position) THEN "T"
  ELSE IF isPointInRectf(getSizingRect(st), position) THEN "F"
  ELSE st.win.d_parent["F"]

\* GUIContext: no capture window, the cursor free on the whole display
InitContext ==
  [captureWnd |-> NoWindow, constraintArea |-> ScreenRect,
   cursorImage |-> "default"]

NoOp == [name |-> "none", window |-> NoWindow, source |-> "none",
         position |-> Pt(0, 0)]

Op(name, w, source, position) ==
  [name |-> name, window |-> w, source |-> source, position |-> position]

NoLast ==
  [op |-> NoOp, fired |-> <<>>, handled |-> <<>>, captured |-> <<>>, moves |-> 0,
   result |-> "none"]

InitWin(parentOfF) ==
  [d_parent |-> [w \in Windows |->
                   IF w = "T" THEN "F" ELSE IF w = "F" THEN parentOfF ELSE NoWindow],
   d_active |-> [w \in Windows |-> w \in {"R", "T", "O"}],
   d_restoreOldCapture |-> [w \in Windows |-> FALSE],
   d_oldCapture |-> [w \in Windows |-> NoWindow],
   d_propagatePointerInputs |-> [w \in Windows |-> w = "T"],
   d_enabled |-> [w \in Windows |-> TRUE],
   d_visible |-> [w \in Windows |-> TRUE],
   d_updateMode |-> [w \in Windows |-> WindowUpdateMode_Visible],
   d_position |-> [w \in Windows |-> Pt(0, 0)]]

\* FrameWindow::FrameWindow
InitFrameWindow ==
  [d_frameEnabled |-> TRUE, d_rollupEnabled |-> TRUE, d_rolledup |-> FALSE,
   d_sizingEnabled |-> TRUE, d_beingSized |-> FALSE, d_dragMovable |-> TRUE,
   d_dragPoint |-> Pt(0, 0), d_borderSize |-> Px(DefaultSizingBorderSize),
   handler |-> NoHandlerCall, handling |-> 0]

\* Titlebar::Titlebar; the constructor leaves d_dragPoint and
\* d_oldCursorArea as their default constructors made them.  dragBegan is
\* history: the constraint area when the drag in progress began.
InitTitlebar(area) ==
  [d_dragging |-> FALSE, d_dragEnabled |-> TRUE, d_dragPoint |-> Pt(0, 0),
   d_oldCursorArea |-> area, dragBegan |-> ZeroRect]

\* A quiescent GUI, for the specifications that do not exercise it.
GuiIdle ==
  /\ ctx = InitContext
  /\ win = InitWin("R")
  /\ geom = FrameGeom
  /\ frame = InitFrameWindow
  /\ titlebar = InitTitlebar(ZeroRect)
  /\ last = NoLast

InitFrame ==
  /\ InitSlots
  /\ SamplesIdle
  /\ RendererIdle
  /\ ctx = InitContext
  /\ \E parentOfF \in {"R", NoWindow} : win = InitWin(parentOfF)
  /\ geom = FrameGeom
  /\ frame = InitFrameWindow
  /\ titlebar = InitTitlebar(ZeroRect)
  /\ last = NoLast

\* Records in dragBegan the constraint area a Titlebar drag started from.
NoteDragBegan(before, after) ==
  IF ~after.titlebar.d_dragging
  THEN [after EXCEPT !.titlebar.dragBegan = ZeroRect]
  ELSE IF ~before.titlebar.d_dragging
  THEN [after EXCEPT !.titlebar.dragBegan = before.ctx.constraintArea]
  ELSE after

\* The step from the current state to the state an operation produced.
Commit(after) == SetGuiState(NoteDragBegan(GuiState, after))

\* The context injects a press-hold of the cursor.
PressHold(source, position) ==
  LET w == Target(GuiState, position)
      e == CursorEvent(source, position)
      begun == Begin(GuiState, Op("CursorPressHold", w, source, position))
  IN /\ w # NoWindow
     /\ Commit(onCursorPressHold(begun, w, e))

\* The context injects the release (activation) of the cursor.
CursorActivate(source, position) ==
  LET w == Target(GuiState, position)
      e == CursorEvent(source, position)
      begun == Begin(GuiState, Op("CursorActivate", w, source, position))
  IN /\ w # NoWindow
     /\ Commit(onCursorActivate(begun, w, e))

\* The application calls captureInput / releaseInput on a window.
AppCaptureInput(w) ==
  /\ w \in Windows
  /\ Commit(captureInput(Begin(GuiState, Op("captureInput", w, "none", Pt(0, 0))), w))

AppReleaseInput(w) ==
  /\ w \in Windows
  /\ Commit(releaseInput(Begin(GuiState, Op("releaseInput", w, "none", Pt(0, 0))), w))

SetRestoreOldCapture(w, setting) ==
  /\ w \in Windows
  /\ Commit(setRestoreOldCapture(
       Begin(GuiState, Op("setRestoreOldCapture", w, "none", Pt(0, 0))), w, setting))

Activate(w) ==
  /\ w \in Windows
  /\ Commit(activate(Begin(GuiState, Op("activate", w, "none", Pt(0, 0))), w))

Deactivate(w) ==
  /\ w \in Windows
  /\ Commit(deactivate(Begin(GuiState, Op("deactivate", w, "none", Pt(0, 0))), w))

SetSizingEnabled(setting) ==
  /\ setting \in BOOLEAN
  /\ Commit(setSizingEnabled(
       Begin(GuiState, Op("setSizingEnabled", "F", "none", Pt(0, 0))), setting))

SetDraggingEnabled(setting) ==
  /\ setting \in BOOLEAN
  /\ Commit(setDraggingEnabled(
       Begin(GuiState, Op("setDraggingEnabled", "T", "none", Pt(0, 0))), setting))

NextFrame ==
  \/ \E source \in Sources, position \in PressPoints : PressHold(source, position)
  \/ \E source \in Sources, position \in ActivatePoints : CursorActivate(source, position)
  \/ \E w \in {"F", "O"} : AppCaptureInput(w)
  \/ \E w \in {"F", "T", "O"} : AppReleaseInput(w)
  \/ \E setting \in BOOLEAN : SetRestoreOldCapture("O", setting)
  \/ \E w \in {"F", "T"} : Activate(w)
  \/ \E w \in {"F"} : Deactivate(w)
  \/ \E setting \in BOOLEAN : SetSizingEnabled(setting)
  \/ \E setting \in BOOLEAN : SetDraggingEnabled(setting)

SpecFrame == InitFrame /\ [][NextFrame]_vars

\* No slot constructed yet, beside a quiescent GUI.
InitSlotSpec ==
  /\ InitSlots
  /\ SamplesIdle
  /\ GuiIdle
  /\ RendererIdle

SpecSlot == InitSlotSpec /\ [][SlotStep]_vars

\* ------------------------------------------------------------------------
\* disconnect() entered again while its unsubscribe call is running.  The
\* Event keeps a counted reference to each subscribed slot; erasing it in
\* unsubscribe destroys the slot when that reference was the last one, and
\* the destructor calls disconnect() before the first call has reached its
\* assignment to d_event.
\* ------------------------------------------------------------------------

\* Event::unsubscribe(slot) as called from disconnect(); lastReference
\* tells whether the erased reference was the last one to the slot.
Event_unsubscribe_releasing(st, s, lastReference) ==
  LET holds == IndexOf(st.d_slots, s) # 0
      unsubscribed == Event_unsubscribe(st, s)
  IN IF holds /\ lastReference
     THEN BoundSlot_destruct(unsubscribed, s)
     ELSE unsubscribed

\* BoundSlot::disconnect() with the release of the Event's reference inside
\* the unsubscribe call; d_event is assigned after unsubscribe has returned.
disconnect_releasing(st, s, lastReference) ==
  LET called == [st EXCEPT !.lastCall = <<"disconnect", s, st.d_event[s]>>]
  IN IF st.d_event[s] # "null"
     THEN [Event_unsubscribe_releasing(called, s, lastReference)
             EXCEPT !.d_event[s] = "null"]
     ELSE called

\* disconnect() is called on a slot; the caller may hold no counted
\* reference of its own.
DisconnectReleasing(s, lastReference) ==
  /\ firing => (running # NoSlot /\ (lastReference => running # s))
  /\ status[s] = "alive"
  /\ SetSlotState(disconnect_releasing(SlotState, s, lastReference))

NextReentry ==
  \/ \E s \in Slots, g \in Groups : Subscribe(s, g)
  \/ \E s \in Slots, lastReference \in BOOLEAN : DisconnectReleasing(s, lastReference)
  \/ \E s \in Slots : Destroy(s)
  \/ FireBegin
  \/ FireEnter
  \/ FireReturn
  \/ FireEnd

SpecReentry == InitSlotSpec /\ [][NextReentry]_vars

\* ------------------------------------------------------------------------
\* Edge resizing by the cursor: FrameWindows of every alignment, with and
\* without size limits, sized by press-hold on a border and cursor moves
\* ------------------------------------------------------------------------
MaxMoves == 1         \* cursor moves injected in one behaviour

Alignments == {"Left", "Centre", "Right"}

VerticalAlignments == {"Top", "Centre", "Bottom"}

\* <<minimum, maximum>> of both axes: no limits, a minimum below the
\* maximum, and a minimum above the maximum.
EdgeLimits == {<<0, 0>>, <<Px(20), Px(40)>>, <<Px(40), Px(20)>>}

\* How far the cursor moves on each axis from the drag anchor.
Deltas == {-Px(40), 0, Px(6), Px(40)}

EdgeArea == Rect(Px(30), Px(20), Px(60), Px(50))

EdgeGeom(ha, va, lim) ==
  [d_area |-> EdgeArea,
   d_pixelSize |-> Size(limitedSize(EdgeArea.r - EdgeArea.l, lim[1], lim[2]),
                        limitedSize(EdgeArea.b - EdgeArea.t, lim[1], lim[2])),
   d_minSize |-> Size(lim[1], lim[1]),
   d_maxSize |-> Size(lim[2], lim[2]),
   d_horizontalAlignment |-> ha,
   d_verticalAlignment |-> va]

\* Points on the sizing border of a frame of the current size: in the
\* top-left corner, on the top edge and in the bottom-right corner.
EdgePoints(st) ==
  LET w == st.geom.d_pixelSize.w
      h == st.geom.d_pixelSize.h
  IN {Pt(Px(1), Px(1)), Pt(w \div 2, Px(1)), Pt(w - Px(1), h - Px(1))}

InitEdge ==
  /\ InitSlots
  /\ SamplesIdle
  /\ RendererIdle
  /\ ctx = InitContext
  /\ win = [InitWin("R") EXCEPT !.d_active = [w \in Windows |-> TRUE]]
  /\ \E ha \in Alignments, va \in VerticalAlignments, lim \in EdgeLimits :
       geom = EdgeGeom(ha, va, lim)
  /\ frame = InitFrameWindow
  /\ titlebar = InitTitlebar(ZeroRect)
  /\ last = NoLast

\* The context injects a cursor move to the FrameWindow, (dx, dy) away from
\* the drag anchor; the record of the operation keeps (dx, dy).
CursorMove(dx, dy, wndUnderCursor) ==
  LET position == Pt(frame.d_dragPoint.x + dx, frame.d_dragPoint.y + dy)
      e == CursorEvent("none", position)
      begun == Begin(GuiState, Op("CursorMove", "F", "none", Pt(dx, dy)))
      counted == [begun EXCEPT !.last.moves = @ + 1]
  IN /\ getCaptureWindow(GuiState) \in {NoWindow, "F"}
     /\ last.moves < MaxMoves
     /\ Commit(FrameWindow_onCursorMove(counted, e, wndUnderCursor))

NextEdge ==
  \/ \E position \in EdgePoints(GuiState) : PressHold("Left", position)
  \/ \E dx \in Deltas, dy \in Deltas, wndUnderCursor \in {"F", "T"} :
       CursorMove(dx, dy, wndUnderCursor)
  \/ CursorActivate("Left", Pt(Px(1), Px(1)))

SpecEdge == InitEdge /\ [][NextEdge]_vars

\* ------------------------------------------------------------------------
\* One size-drag after another: a press-hold on the border of a FrameWindow
\* of 30 by 30 pixels, cursor moves while it is being sized, the release.
\* ------------------------------------------------------------------------
MaxSizingMoves == 2   \* cursor moves injected in one behaviour

\* How far the cursor moves on each axis from the drag anchor.
SizingDeltas == {-Px(23), -Px(10), Px(6)}

\* The context injects a cursor move to the FrameWindow that is being
\* sized, (dx, dy) away from the drag anchor.
SizingMove(dx, dy) ==
  LET position == Pt(frame.d_dragPoint.x + dx, frame.d_dragPoint.y + dy)
      e == CursorEvent("none", position)
      begun == Begin(GuiState, Op("CursorMove", "F", "none", Pt(dx, dy)))
      counted == [begun EXCEPT !.last.moves = @ + 1]
  IN /\ frame.d_beingSized
     /\ getCaptureWindow(GuiState) = "F"
     /\ last.moves < MaxSizingMoves
     /\ Commit(FrameWindow_onCursorMove(counted, e, "F"))

NextSizing ==
  \/ \E position \in EdgePoints(GuiState) : PressHold("Left", position)
  \/ \E dx \in SizingDeltas, dy \in SizingDeltas : SizingMove(dx, dy)
  \/ CursorActivate("Left", Pt(Px(1), Px(1)))

SpecSizing == InitEdge /\ [][NextSizing]_vars

\* ------------------------------------------------------------------------
\* Roll-up, enablement, hit testing and the sizing border of a FrameWindow
\* 200 by 100 pixels with the default border; its Titlebar is a child of
\* the frame, or of the plain window O.
\* ------------------------------------------------------------------------
RollupPixelSize == [w |-> Px(200), h |-> Px(100)]

RollupGeom ==
  [d_area |-> Rect(Px(30), Px(20), Px(30) + RollupPixelSize.w, Px(20) + RollupPixelSize.h),
   d_pixelSize |-> RollupPixelSize,
   d_minSize |-> [w |-> 0, h |-> 0],
   d_maxSize |-> [w |-> 0, h |-> 0],
   d_horizontalAlignment |-> "Left",
   d_verticalAlignment |-> "Top"]

\* Points local to the frame: in each zone of the border, on the inner
\* boundaries, inside the inset rect and outside the frame.
BorderPoints ==
  {Pt(Px(2), Px(2)), Pt(Px(100), Px(2)), Pt(Px(100), Px(50)), Pt(Px(250), Px(50)),
   Pt(Px(198), Px(2)), Pt(Px(2), Px(98)), Pt(Px(198), Px(98)), Pt(Px(100), Px(98)),
   Pt(Px(2), Px(50)), Pt(Px(192), Px(50)), Pt(Px(8), Px(8)), Pt(Px(8) - 1, Px(8)),
   Pt(Px(200), Px(100)), Pt(0, 0)}

\* Positions on the display: inside the frame, on its right edge, outside.
HitPoints == {Pt(Px(40), Px(30)), Pt(Px(230), Px(50)), Pt(Px(10), Px(10))}

SemanticValues == {"SelectWord", "SelectAll"}

SemanticEventArgs(value, source) == [d_semanticValue |-> value, source |-> source]

InitRollup ==
  /\ InitSlots
  /\ SamplesIdle
  /\ RendererIdle
  /\ ctx = InitContext
  /\ \E parentOfT \in {"F", "O"} :
       win = [InitWin("R") EXCEPT !.d_parent["T"] = parentOfT]
  /\ geom = RollupGeom
  /\ frame = InitFrameWindow
  /\ titlebar = InitTitlebar(ZeroRect)
  /\ last = NoLast

SetFrameEnabled(setting) ==
  /\ setting \in BOOLEAN
  /\ Commit(setFrameEnabled(
       Begin(GuiState, Op("setFrameEnabled", "F", "none", Pt(0, 0))), setting))

SetEnabled(w, enabled) ==
  /\ w \in Windows
  /\ Commit(setEnabled(Begin(GuiState, Op("setEnabled", w, "none", Pt(0, 0))), w, enabled))

\* A caller asks the frame for the sizing zone of a point.
GetSizingBorderAtPoint(pt) ==
  LET begun == Begin(GuiState, Op("getSizingBorderAtPoint", "F", "none", pt))
  IN /\ pt \in BorderPoints
     /\ Commit([begun EXCEPT !.last.result = getSizingBorderAtPoint(begun, pt)])

\* A caller asks the frame whether a display position hits it; source
\* records the allow_disabled argument.
IsHit(position, allow_disabled) ==
  LET begun == Begin(GuiState, Op("isHit", "F",
                                  IF allow_disabled THEN "allow_disabled" ELSE "none",
                                  position))
  IN /\ allow_disabled \in BOOLEAN
     /\ Commit([begun EXCEPT
                  !.last.result = FrameWindow_isHit(begun, position, allow_disabled)])

ToggleRollup ==
  /\ isRollupEnabled(GuiState) \in BOOLEAN
  /\ Commit(toggleRollup(Begin(GuiState, Op("toggleRollup", "F", "none", Pt(0, 0)))))

SetRollupEnabled(setting) ==
  /\ setting \in BOOLEAN
  /\ Commit(setRollupEnabled(
       Begin(GuiState, Op("setRollupEnabled", "F", "none", Pt(0, 0))), setting))

SetRolledup(val) ==
  /\ val \in BOOLEAN
  /\ Commit(setRolledup(Begin(GuiState, Op("setRolledup", "F", "none", Pt(0, 0))), val))

\* The context injects a semantic input event into the Titlebar.
SemanticEvent(value, source) ==
  LET e == SemanticEventArgs(value, source)
      begun == Begin(GuiState, Op(value, "T", source, Pt(0, 0)))
  IN /\ value \in SemanticValues
     /\ Commit(Titlebar_onSemanticInputEvent(begun, e))

NextRollup ==
  \/ \E setting \in BOOLEAN : SetSizingEnabled(setting)
  \/ \E setting \in BOOLEAN : SetFrameEnabled(setting)
  \/ \E w \in {"R", "F", "T"}, enabled \in BOOLEAN : SetEnabled(w, enabled)
  \/ \E pt \in BorderPoints : GetSizingBorderAtPoint(pt)
  \/ \E position \in HitPoints, allow_disabled \in BOOLEAN : IsHit(position, allow_disabled)
  \/ ToggleRollup
  \/ \E setting \in BOOLEAN : SetRollupEnabled(setting)
  \/ \E val \in BOOLEAN : SetRolledup(val)
  \/ \E value \in SemanticValues, source \in Sources : SemanticEvent(value, source)

SpecRollup == InitRollup /\ [][NextRollup]_vars

\* ------------------------------------------------------------------------
\* Roll-up of a FrameWindow whose RollupToggled event has a subscriber that
\* calls back into the FrameWindow.
\* ------------------------------------------------------------------------
InitRollupHandler ==
  /\ InitSlots
  /\ SamplesIdle
  /\ RendererIdle
  /\ ctx = InitContext
  /\ win = InitWin("R")
  /\ geom = RollupGeom
  /\ \E call \in HandlerCalls : frame = [InitFrameWindow EXCEPT !.handler = call]
  /\ titlebar = InitTitlebar(ZeroRect)
  /\ last = NoLast

NextRollupHandler ==
  \/ ToggleRollup
  \/ \E setting \in BOOLEAN : SetRollupEnabled(setting)
  \/ \E val \in BOOLEAN : SetRolledup(val)
  \/ \E value \in SemanticValues, source \in Sources : SemanticEvent(value, source)

SpecRollupHandler == InitRollupHandler /\ [][NextRollupHandler]_vars

\* ------------------------------------------------------------------------
\* Moving a FrameWindow by its Titlebar: presses, moves and releases of the
\* cursor on a Titlebar that is a child of the frame, or of the plain
\* window O.
\* ------------------------------------------------------------------------
MaxDragMoves == 2

\* Where the cursor moves to, local to the frame: the second press point,
\* to its right and below, to its left and above.
MovePoints == {Pt(Px(20), Px(10)), Pt(Px(26), Px(12)), Pt(Px(10), Px(6))}

InitTitleMove ==
  /\ InitSlots
  /\ SamplesIdle
  /\ RendererIdle
  /\ ctx = InitContext
  /\ \E parentOfT \in {"F", "O"} :
       win = [InitWin("R") EXCEPT !.d_parent["T"] = parentOfT]
  /\ geom = FrameGeom
  /\ frame = InitFrameWindow
  /\ titlebar = InitTitlebar(ZeroRect)
  /\ last = NoLast

\* The context injects a move of the cursor: it goes to the capture window,
\* else to the window under the cursor.
InjectCursorMove(position) ==
  LET w == Target(GuiState, position)
      e == CursorEvent("none", position)
      begun == Begin(GuiState, Op("CursorMove", w, "none", position))
      counted == [begun EXCEPT !.last.moves = @ + 1]
  IN /\ w # NoWindow
     /\ last.moves < MaxDragMoves
     /\ Commit(onCursorMove(counted, w, e))

NextTitleMove ==
  \/ \E source \in Sources, position \in PressPoints : PressHold(source, position)
  \/ \E source \in Sources, position \in ActivatePoints : CursorActivate(source, position)
  \/ \E position \in MovePoints : InjectCursorMove(position)
  \/ \E w \in {"F", "T"} : Activate(w)
  \/ \E setting \in BOOLEAN : SetDraggingEnabled(setting)

SpecTitleMove == InitTitleMove /\ [][NextTitleMove]_vars

\* ------------------------------------------------------------------------
\* The renderer's life and its uploads: an application that bootstraps and
\* destroys the System, fills and resets three geometry buffers and has the
\* System's renderer upload lists of them.
\* ------------------------------------------------------------------------
\* vertices the geometry buffers hold together
MaxVertices == 2

RECURSIVE TotalVertices(_, _)
TotalVertices(r, buffers) ==
  IF buffers = {} THEN 0
  ELSE LET b == CHOOSE x \in buffers : TRUE
       IN r.vertices[b] + TotalVertices(r, buffers \ {b})

\* Buffer A has the coloured layout, B the textured one, C any.
Layouts ==
  {layout \in [GeometryBuffers -> ElementCounts] :
     layout["A"] = ColouredElementCount /\ layout["B"] = TexturedElementCount}

\* The lists the application uploads.
BufferLists ==
  {<<"A", "B", "C">>, <<"C", "A", "B">>, <<>>}

InitRenderer ==
  /\ InitSlots
  /\ SamplesIdle
  /\ GuiIdle
  /\ \E layout \in Layouts : renderer = NoSystem(layout)

SetRenderer(r) ==
  /\ renderer' = r
  /\ UNCHANGED <<slotVars, guiVars, sampleVars>>

BootstrapSystem(sized) ==
  /\ sized \in BOOLEAN
  /\ SetRenderer(bootstrapSystem(Enter(renderer, "bootstrapSystem", <<>>), sized))

DestroySystem ==
  /\ renderer.systems \in Nat
  /\ SetRenderer(destroySystem(Enter(renderer, "destroySystem", <<>>)))

AppendGeometry(buffer, count) ==
  /\ SystemExists(renderer)
  /\ TotalVertices(renderer, GeometryBuffers) + count <= MaxVertices
  /\ SetRenderer(appendGeometry(Enter(renderer, "appendGeometry", <<>>), buffer, count))

Reset(buffer) ==
  /\ SystemExists(renderer)
  /\ renderer.vertices[buffer] > 0
  /\ SetRenderer(reset(Enter(renderer, "reset", <<>>), buffer))

UploadBuffers(buffers) ==
  /\ SystemExists(renderer)
  /\ SetRenderer(uploadBuffers(Enter(renderer, "uploadBuffers", buffers), buffers))

NextRenderer ==
  \/ \E sized \in BOOLEAN : BootstrapSystem(sized)
  \/ DestroySystem
  \/ \E buffer \in GeometryBuffers : AppendGeometry(buffer, 1)
  \/ \E buffer \in GeometryBuffers : Reset(buffer)
  \/ \E buffers \in BufferLists : UploadBuffers(buffers)

SpecRenderer == InitRenderer /\ [][NextRenderer]_vars

\* ------------------------------------------------------------------------
\* The per-frame bracket and the blend mode: an application that has a
\* renderer begin and end frames, set blend modes and create materials, and
\* shares the OpenGL context with other code.
\* ------------------------------------------------------------------------
\* what the other users of the context change
SharedStates == {"GL_SCISSOR_TEST", "GL_BLEND", "blendFunc"}

ContextValues(state) ==
  IF state = "blendFunc" THEN {DefaultBlendFunc, PremultipliedBlendFunc, NormalBlendFunc}
  ELSE {"enabled", "disabled"}

InitRendering ==
  /\ InitSlots
  /\ SamplesIdle
  /\ GuiIdle
  /\ renderer = NoSystem([b \in GeometryBuffers |-> TexturedElementCount])

BeginRendering ==
  /\ SystemExists(renderer)
  /\ SetRenderer(beginRendering(Enter(renderer, "beginRendering", <<>>)))

EndRendering ==
  /\ SystemExists(renderer)
  /\ SetRenderer(endRendering(Enter(renderer, "endRendering", <<>>)))

SetupRenderingBlendMode(mode, force) ==
  /\ SystemExists(renderer)
  /\ SetRenderer(setupRenderingBlendMode(
                   Enter(renderer, "setupRenderingBlendMode", <<mode, force>>),
                   mode, force))

CreateRenderMaterial(shaderType) ==
  /\ SystemExists(renderer)
  /\ SetRenderer(createRenderMaterial(
                   Enter(renderer, "createRenderMaterial", <<shaderType>>), shaderType))

SetStateResettingEnabled(setting) ==
  /\ SystemExists(renderer)
  /\ SetRenderer(setStateResettingEnabled(
                   Enter(renderer, "setStateResettingEnabled", <<setting>>), setting))

\* Other code using the context sets one of its states directly.
OtherContextUser(state, value) ==
  /\ renderer.context[state] # value
  /\ SetRenderer([Enter(renderer, "other", <<state, value>>)
                    EXCEPT !.context[state] = value])

NextRendering ==
  \/ BootstrapSystem(FALSE)
  \/ DestroySystem
  \/ BeginRendering
  \/ EndRendering
  \/ \E mode \in BlendModes, force \in BOOLEAN : SetupRenderingBlendMode(mode, force)
  \/ \E shaderType \in DefaultShaderTypes : CreateRenderMaterial(shaderType)
  \/ \E setting \in BOOLEAN : SetStateResettingEnabled(setting)
  \/ \E state \in SharedStates : \E value \in ContextValues(state) :
       OtherContextUser(state, value)

SpecRendering == InitRendering /\ [][NextRendering]_vars

\* ------------------------------------------------------------------------
\* The window tree: an application that attaches and detaches windows,
\* shows, hides, activates and deactivates them, and asks each for its
\* effective visibility and activity.
\* ------------------------------------------------------------------------
TreeWindows == {"R", "F", "T"}

\* Window::Window: no parent, visible, not active
InitTree ==
  /\ InitSlots
  /\ SamplesIdle
  /\ RendererIdle
  /\ ctx = InitContext
  /\ win = [InitWin(NoWindow) EXCEPT !.d_parent = [w \in Windows |-> NoWindow],
                                     !.d_active = [w \in Windows |-> FALSE]]
  /\ geom = FrameGeom
  /\ frame = InitFrameWindow
  /\ titlebar = InitTitlebar(ZeroRect)
  /\ last = NoLast

AddChild(parent, child) ==
  /\ parent # child
  /\ ~IsAncestor(GuiState, child, parent)
  /\ Commit(addChild(Begin(GuiState, Op("addChild", child, parent, Pt(0, 0))),
                     parent, child))

RemoveChild(child) ==
  /\ win.d_parent[child] # NoWindow
  /\ Commit(removeChild(Begin(GuiState, Op("removeChild", child, "none", Pt(0, 0))),
                        child))

SetVisible(w, setting) ==
  /\ setting \in BOOLEAN
  /\ Commit(setVisible(Begin(GuiState, Op("setVisible", w, "none", Pt(0, 0))),
                       w, setting))

IsEffectiveVisible(w) ==
  LET begun == Begin(GuiState, Op("isEffectiveVisible", w, "none", Pt(0, 0)))
  IN /\ w \in Windows
     /\ Commit([begun EXCEPT !.last.result = isEffectiveVisible(begun, w)])

IsActive(w) ==
  LET begun == Begin(GuiState, Op("isActive", w, "none", Pt(0, 0)))
  IN /\ w \in Windows
     /\ Commit([begun EXCEPT !.last.result = isActive(begun, w)])

NextTree ==
  \/ \E parent, child \in TreeWindows : AddChild(parent, child)
  \/ \E child \in TreeWindows : RemoveChild(child)
  \/ \E w \in TreeWindows, setting \in BOOLEAN : SetVisible(w, setting)
  \/ \E w \in TreeWindows : Activate(w)
  \/ \E w \in TreeWindows : Deactivate(w)
  \/ \E w \in TreeWindows : IsEffectiveVisible(w)
  \/ \E w \in TreeWindows : IsActive(w)

SpecTree == InitTree /\ [][NextTree]_vars

\* ------------------------------------------------------------------------
\* The UpdateMode property: an application that sets the update mode of its
\* windows from strings and from values, and reads it back as a string.
\* ------------------------------------------------------------------------
\* the three literals, and strings of other case, empty, padded, cut short
\* and unrelated
PropertyStrings ==
  {"Always", "Never", "Visible", "always", "ALWAYS", "never", "NEVER", "visible",
   "", " Always", "Never ", "Alway", "Neverr", "0", "1", "true", "garbage"}

\* the values of the enumeration and an int cast to it
UpdateModeValues == WindowUpdateModes \cup {3}

\* The property is set from a string: source records the string, result
\* the value fromString gave.
SetUpdateModeProperty(w, str) ==
  LET begun == Begin(GuiState, Op("fromString", w, str, Pt(0, 0)))
  IN /\ str \in PropertyStrings
     /\ Commit([setUpdateMode(begun, w, fromString(str))
                  EXCEPT !.last.result = fromString(str)])

\* The property is read as a string.
GetUpdateModeProperty(w, NDEBUG) ==
  LET begun == Begin(GuiState, Op("toString", w, "none", Pt(0, 0)))
  IN /\ NDEBUG \in BOOLEAN
     /\ Commit([begun EXCEPT !.last.result = toString(getUpdateMode(begun, w), NDEBUG)])

SetUpdateMode(w, mode) ==
  /\ mode \in UpdateModeValues
  /\ Commit(setUpdateMode(Begin(GuiState, Op("setUpdateMode", w, "none", Pt(0, 0))),
                          w, mode))

NextUpdateMode ==
  \/ \E w \in TreeWindows, str \in PropertyStrings : SetUpdateModeProperty(w, str)
  \/ \E w \in TreeWindows, NDEBUG \in BOOLEAN : GetUpdateModeProperty(w, NDEBUG)
  \/ \E w \in TreeWindows, mode \in UpdateModeValues : SetUpdateMode(w, mode)

SpecUpdateMode == InitTree /\ [][NextUpdateMode]_vars

\* ------------------------------------------------------------------------
\* The Inventory sample: an item is picked up and dragged over the plain
\* window and the receiver, some of whose cells other items occupy; the
\* application also places the item itself.
\* ------------------------------------------------------------------------
\* where the item's top-left corner is taken
ItemPositions ==
  {Pt(x, y) : x \in {70, 96, 98, 106, 116, 126}, y \in {0, 8, 30}}

\* the cells of the receiver other items lie on
OccupiedChoices == {{}, {<<2, 0>>}, {<<0, 1>>, <<1, 1>>}}

InitInventory ==
  /\ InitSlots
  /\ GuiIdle
  /\ RendererIdle
  /\ FormIdle
  /\ WidgetsIdle
  /\ \E occupied \in OccupiedChoices : inventory = NewInventoryItem(occupied)

SetInventory(inv) ==
  /\ inventory' = inv
  /\ UNCHANGED <<slotVars, guiVars, rendererVars, form, widgets>>

\* DragContainer starts the drag: the cursor holds the item at d_dragPoint
PickUp ==
  /\ ~inventory.d_dragging
  /\ SetInventory([InventoryCall(inventory, "pickUp") EXCEPT
                     !.d_dragging = TRUE, !.d_dragPoint = ItemDragPoint])

\* The cursor moves while the item is dragged.
DragTo(pos) ==
  /\ inventory.d_dragging
  /\ SetInventory(doDragging(InventoryCall(inventory, "doDragging"), pos))

\* The application places the item.
SetItemPosition(pos) ==
  /\ ~inventory.d_dragging
  /\ SetInventory(InventoryItem_setPosition(InventoryCall(inventory, "setPosition"), pos))

\* DragContainer ends the drag; the drop target changes only through
\* onDragDropTargetChanged.
EndDrag ==
  /\ inventory.d_dragging
  /\ SetInventory([InventoryCall(inventory, "endDrag") EXCEPT !.d_dragging = FALSE])

NextInventory ==
  \/ PickUp
  \/ EndDrag
  \/ \E pos \in ItemPositions : DragTo(pos)
  \/ \E pos \in ItemPositions : SetItemPosition(pos)

SpecInventory == InitInventory /\ [][NextInventory]_vars

\* ------------------------------------------------------------------------
\* The FormNavigation sample: a user who types into the edit boxes, toggles
\* the checkbox and clicks the two buttons.
\* ------------------------------------------------------------------------
InitForm ==
  /\ InitSlots
  /\ GuiIdle
  /\ RendererIdle
  /\ InventoryIdle
  /\ WidgetsIdle
  /\ form = NewForm

SetForm(f) ==
  /\ form' = f
  /\ UNCHANGED <<slotVars, guiVars, rendererVars, inventory, widgets>>

TypeText(i, text) ==
  /\ form.d_editboxes[i] # text
  /\ SetForm(typeText(form, i, text))

ToggleCheckbox ==
  /\ form.d_isGameMasterCheckbox \in BOOLEAN
  /\ SetForm(toggleCheckbox(form))

ClickConfirm ==
  /\ form.d_confirmButton \in BOOLEAN
  /\ SetForm(clickConfirm(form))

ClickReset ==
  /\ form.d_confirmButton \in BOOLEAN
  /\ SetForm(clickReset(form))

NextForm ==
  \/ \E i \in Editboxes, text \in EditboxTexts : TypeText(i, text)
  \/ ToggleCheckbox
  \/ ClickConfirm
  \/ ClickReset

SpecForm == InitForm /\ [][NextForm]_vars

\* ------------------------------------------------------------------------
\* The Widgets sample: a user who selects a widget and makes it fire
\* events.  After a selection the widget is clicked any number of times,
\* then the cursor enters it any number of times; cursor moves and updates
\* come at any time.
\* ------------------------------------------------------------------------
\* Clicked with WindowEventArgs, CursorEntersArea with CursorInputEventArgs;
\* CursorMove and Updated only light a lamp
WidgetEvents ==
  {[name |-> "Clicked", chars |-> 7, kind |-> 11, phase |-> 1],
   [name |-> "CursorEntersArea", chars |-> 16, kind |-> 16, phase |-> 2],
   [name |-> "CursorMove", chars |-> 10, kind |-> 16, phase |-> 0],
   [name |-> "Updated", chars |-> 7, kind |-> 11, phase |-> 0]}

InitWidgets ==
  /\ InitSlots
  /\ GuiIdle
  /\ RendererIdle
  /\ InventoryIdle
  /\ FormIdle
  /\ widgets = NewWidgetsSample

SetWidgets(w) ==
  /\ widgets' = w
  /\ UNCHANGED <<slotVars, guiVars, rendererVars, inventory, form>>

\* The displayed widget, or before any selection the sample's own windows,
\* fires an event.
WidgetEvent(e) ==
  /\ e.phase = 0 \/ e.phase >= widgets.phase
  /\ SetWidgets(handleEvent([widgets EXCEPT !.phase = IF e.phase = 0 THEN @ ELSE e.phase],
                            e))

SelectWidget ==
  /\ widgets.selected \in BOOLEAN
  /\ SetWidgets(handleWidgetSelectionChanged(widgets, "Button", AllReadable))

NextWidgets ==
  \/ \E e \in WidgetEvents : WidgetEvent(e)
  \/ SelectWidget

SpecWidgets == InitWidgets /\ [][NextWidgets]_vars

\* ------------------------------------------------------------------------
\* The Widgets sample: a user who selects one widget type after another, or
\* clears the selection.  What reading the properties of the widget does
\* is the widget's matter.
\* ------------------------------------------------------------------------
InitSelection ==
  /\ InitSlots
  /\ GuiIdle
  /\ RendererIdle
  /\ InventoryIdle
  /\ FormIdle
  /\ widgets = NewWidgetsSample

SelectionChanged(item, retrieval) ==
  /\ item \in WidgetTypes \cup {"none"}
  /\ SetWidgets(handleWidgetSelectionChanged(widgets, item, retrieval))

NextSelection ==
  \E item \in WidgetTypes \cup {"none"}, retrieval \in [1..NProperties -> Retrievals] :
    SelectionChanged(item, retrieval)

SpecSelection == InitSelection /\ [][NextSelection]_vars

\* ------------------------------------------------------------------------
\* Claims about BoundSlot and Event
\* ------------------------------------------------------------------------
IsDisconnectCall(call, s) ==
  call[2] = s /\ call[1] \in {"disconnect", "destruct"}

C1_State ==
  \A s \in Slots :
    /\ unsubscribeCalls[s] <= 1
    /\ status[s] # "unborn" => (unsubscribeCalls[s] = 1 <=> d_event[s] = "null")
    /\ IsDisconnectCall(lastCall, s) =>
          /\ d_event[s] = "null"
          /\ unsubscribeCalls[s] = 1
          /\ s \notin Range(d_slots)

C1_Step ==
  \A s \in Slots :
    /\ (status[s] # "unborn" /\ d_event[s] = "null") => d_event'[s] = "null"
    /\ (d_event[s] = "E" /\ IsDisconnectCall(lastCall', s)) =>
          /\ unsubscribeCalls'[s] = unsubscribeCalls[s] + 1
          /\ d_event'[s] = "null"
    /\ (status[s] = "alive" /\ d_event[s] = "null" /\ IsDisconnectCall(lastCall', s)) =>
          /\ UNCHANGED <<d_group, d_event, d_slots, firing, iter, running,
                         invoked, snapshot, erased, unsubscribeCalls>>
          /\ lastCall'[1] = "disconnect" => UNCHANGED <<status, d_subscriber>>

LoopFinished == firing /\ running = NoSlot /\ iter > Len(d_slots)

Victims == {p[1] : p \in erased}

\* C2: one fire invokes the subscribed handlers in subscription order (the
\* order of the container when the fire began), none of them twice; and a
\* handler that was not unsubscribed during the fire is invoked exactly
\* once, whatever the other handlers unsubscribed.  In particular, with A,
\* B, C subscribed in that order to one group, A unsubscribing B leaves C
\* invoked exactly once.
C2_FireOrder ==
  firing =>
    /\ \A i \in 1..Len(invoked) : invoked[i] \in Range(snapshot)
    /\ \A i, j \in 1..Len(invoked) :
          i < j => IndexOf(snapshot, invoked[i]) < IndexOf(snapshot, invoked[j])
    /\ LoopFinished =>
          /\ \A s \in Range(snapshot) : s \notin Victims => s \in Range(invoked)
          /\ erased = {} => invoked = snapshot

\* A, B, C of one group were subscribed in that order, A's handler
\* disconnected B, and the fire has run A and then C.
C2_Witness ==
  /\ LoopFinished
  /\ snapshot = <<1, 2, 3>>
  /\ d_group[1] = d_group[2] /\ d_group[2] = d_group[3]
  /\ erased = {<<2, 1>>}
  /\ invoked = <<1, 3>>

\* C3: disconnect() never frees the subscriber functor.  The functor is
\* allocated from the construction of the BoundSlot until its destructor
\* has run, so the functor of the handler that is executing is allocated,
\* also after the handler disconnected its own slot.
C3_SubscriberLive ==
  /\ \A s \in Slots :
        /\ status[s] = "alive" => d_subscriber[s] = "allocated"
        /\ d_subscriber[s] = "freed" => status[s] = "destroyed"
  /\ running # NoSlot => d_subscriber[running] = "allocated"

\* A handler has disconnected its own slot and is still executing.
C3_Witness ==
  \E s \in Slots :
    /\ running = s
    /\ lastCall = <<"disconnect", s, "E">>
    /\ d_event[s] = "null"
    /\ d_subscriber[s] = "allocated"

\* ------------------------------------------------------------------------
\* Claims about input capture, drag sizing and drag moving (SpecFrame)
\* ------------------------------------------------------------------------
SizingEnded == Count(last'.fired, <<"F", "DragSizingEnded">>)

SizingStarted == Count(last'.fired, <<"F", "DragSizingStarted">>)

FrameLosesCapture == ctx.captureWnd = "F" /\ ctx'.captureWnd # "F"

SilentSteal ==
  ctx'.captureWnd # NoWindow /\ win'.d_restoreOldCapture[ctx'.captureWnd]

\* C4 as stated: whenever the FrameWindow stops being the capture window,
\* for whatever reason, beingSized is false afterwards and exactly one
\* DragSizingEnded was fired.
C4_AnyCaptureLoss ==
  [][FrameLosesCapture => (~frame'.d_beingSized /\ SizingEnded = 1)]_vars

\* C4 (amended): when the FrameWindow loses the capture by releasing it or to
\* a window that does not restore the old capture, beingSized is false
\* afterwards and exactly one DragSizingEnded was fired, whether or not a
\* size-drag was in progress; when a window that restores the old capture
\* takes the capture, the FrameWindow is not told: beingSized keeps its
\* value and no DragSizingEnded is fired.
C4_NotifiedCaptureLoss ==
  [][FrameLosesCapture =>
       IF SilentSteal
       THEN frame'.d_beingSized = frame.d_beingSized /\ SizingEnded = 0
       ELSE ~frame'.d_beingSized /\ SizingEnded = 1]_vars

\* Another window took the capture from the FrameWindow, which was told.
C4_Witness ==
  /\ last.op.name = "captureInput"
  /\ last.op.window = "O"
  /\ ctx.captureWnd = "O"
  /\ ~win.d_restoreOldCapture["O"]
  /\ Count(last.fired, <<"F", "DragSizingEnded">>) = 1
  /\ ~frame.d_beingSized

\* The step ran FrameWindow::onCursorPressHold (directly, or propagated up
\* from the Titlebar).
FramePressHold ==
  /\ last'.op.name = "CursorPressHold"
  /\ <<"F", "CursorPressHold">> \in Range(last'.fired)

C5_Allowed ==
  /\ last'.op.source = "Left"
  /\ isSizingEnabled(GuiState)
  /\ getSizingBorderAtPoint(GuiState, screenToWindow("F", last'.op.position))
       # "Invalid"
  /\ <<"F", TRUE>> \in Range(last'.captured)

C5_Started ==
  /\ frame'.d_beingSized
  /\ frame'.d_dragPoint = screenToWindow("F", last'.op.position)
  /\ SizingStarted = 1
  /\ <<"cursor", "FrameWindow">> \in Range(last'.handled)

\* C5: a press-hold the FrameWindow handles starts a size-drag (beingSized
\* true, anchor at the local press position, one DragSizingStarted, event
\* marked handled) only if the source is Left, sizing is enabled, the point
\* is on a sizing border and captureInput succeeded, which it does only for
\* an active window; in every other case beingSized and the anchor are
\* unchanged and no DragSizingStarted is fired.
C5_PressHoldStartsSizing ==
  [][FramePressHold =>
       /\ (<<"F", TRUE>> \in Range(last'.captured) => isActive(GuiState, "F"))
       /\ IF C5_Allowed
          THEN C5_Started
          ELSE /\ frame'.d_beingSized = frame.d_beingSized
               /\ frame'.d_dragPoint = frame.d_dragPoint
               /\ SizingStarted = 0
               /\ <<"cursor", "FrameWindow">> \notin Range(last'.handled)]_vars

\* A Left press-hold on the border has started a size-drag.
C5_Witness ==
  /\ last.op.name = "CursorPressHold"
  /\ last.op.source = "Left"
  /\ Count(last.fired, <<"F", "DragSizingStarted">>) = 1
  /\ <<"F", TRUE>> \in Range(last.captured)
  /\ frame.d_beingSized
  /\ frame.d_dragPoint = last.op.position
  /\ ctx.captureWnd = "F"

\* The step is a Left press-hold sent to an idle Titlebar at a point the
\* parent FrameWindow, with sizing enabled, classifies as a sizing border.
TitlebarPressOnBorder ==
  /\ last'.op.name = "CursorPressHold"
  /\ last'.op.window = "T"
  /\ last'.op.source = "Left"
  /\ ~titlebar.d_dragging
  /\ IsFrameWindow(win.d_parent["T"])
  /\ isSizingEnabled(GuiState)
  /\ getSizingBorderAtPoint(GuiState, screenToWindow("F", last'.op.position))
       # "Invalid"

\* C6: a Left press-hold on a Titlebar at a point its parent FrameWindow,
\* with sizing enabled, classifies as a sizing border is refused by the
\* Titlebar: the Titlebar does not call captureInput and does not become the
\* capture window, dragging stays false, the Titlebar's drag anchor and
\* the cursor constraint area are unchanged, and the Titlebar does not mark
\* the event handled.
C6_TitlebarDefersToSizing ==
  [][TitlebarPressOnBorder =>
       /\ \A ok \in BOOLEAN : <<"T", ok>> \notin Range(last'.captured)
       /\ (ctx'.captureWnd = "T" => ctx.captureWnd = "T")
       /\ ~titlebar'.d_dragging
       /\ titlebar'.d_dragPoint = titlebar.d_dragPoint
       /\ titlebar' = titlebar
       /\ ctx'.constraintArea = ctx.constraintArea
       /\ <<"cursor", "Titlebar">> \notin Range(last'.handled)]_vars

\* The Titlebar got a Left press-hold over the parent's sizing border and
\* the parent started a size-drag instead.
C6_Witness ==
  /\ last.op.name = "CursorPressHold"
  /\ last.op.window = "T"
  /\ last.op.source = "Left"
  /\ <<"T", "CursorPressHold">> \in Range(last.fired)
  /\ isSizingEnabled(GuiState)
  /\ getSizingBorderAtPoint(GuiState, last.op.position) # "Invalid"
  /\ ~titlebar.d_dragging
  /\ frame.d_beingSized

\* C7: after a Titlebar that was dragging loses input capture, the cursor's
\* constraint area equals the constraint area in effect before the drag
\* began.
C7_ConstraintRestored ==
  [][(titlebar.d_dragging /\ <<"T", "InputCaptureLost">> \in Range(last'.fired))
       => ctx'.constraintArea = titlebar.dragBegan]_vars

\* ------------------------------------------------------------------------
\* Claims about edge resizing (SpecEdge).  In every reachable state each
\* move*Edge function is applied to every delta and output area below.
\* ------------------------------------------------------------------------
Edges == {"Left", "Right", "Top", "Bottom"}

OutAreas == {geom.d_area, Rect(0, 0, Px(10), Px(10))}

IsHorizontal(edge) == edge \in {"Left", "Right"}

MoveEdge(edge, delta, outArea) ==
  CASE edge = "Left" -> moveLeftEdge(GuiState, delta, outArea)
    [] edge = "Right" -> moveRightEdge(GuiState, delta, outArea)
    [] edge = "Top" -> moveTopEdge(GuiState, delta, outArea)
    [] edge = "Bottom" -> moveBottomEdge(GuiState, delta, outArea)

Extent(edge, area) == IF IsHorizontal(edge) THEN area.r - area.l ELSE area.b - area.t

Along(edge, size) == IF IsHorizontal(edge) THEN size.w ELSE size.h

\* The new size the cursor asks for, before the limits.
RequestedSize(edge, delta) ==
  IF edge \in {"Left", "Top"}
  THEN Along(edge, geom.d_pixelSize) - delta
  ELSE Along(edge, geom.d_pixelSize) + delta

\* The size of the window along the edge's axis that the move produces.
NewSize(edge, delta) == Extent(edge, MoveEdge(edge, delta, geom.d_area).outArea)

ClampedSize(edge, delta) ==
  constrainedSize(RequestedSize(edge, delta), Along(edge, geom.d_minSize),
                  Along(edge, geom.d_maxSize))

\* The example of the specification: minimum width 50, maximum width 300,
\* current width 100.
ExampleGui ==
  [GuiState EXCEPT !.geom.d_area = Rect(0, 0, Px(100), Px(100)),
                   !.geom.d_pixelSize = Size(Px(100), Px(100)),
                   !.geom.d_minSize = Size(Px(50), Px(50)),
                   !.geom.d_maxSize = Size(Px(300), Px(300))]

ExampleWidth ==
  LET moved == moveRightEdge(ExampleGui, Px(500), ExampleGui.geom.d_area)
  IN moved.outArea.r - moved.outArea.l

\* C8 as stated: the new size of an edge drag is never above the declared
\* maximum and never below the declared minimum.
C8_WithinDeclaredLimits ==
  \A edge \in Edges, delta \in Deltas :
    /\ NewSize(edge, delta) <= Along(edge, geom.d_maxSize)
    /\ NewSize(edge, delta) >= Along(edge, geom.d_minSize)

\* C8 (amended): a declared maximum of zero is no upper limit, and then the
\* new size is the requested size or, below the minimum, the minimum; with
\* a maximum other than zero that is not below the minimum, the new size is
\* within the limits and is the requested size when that is within them;
\* with a maximum other than zero below the minimum, the new size is the
\* maximum when the requested size is above the maximum and the minimum
\* otherwise.  With min width 50, max width 300 and current width 100,
\* dragging the right edge by +500 gives a width of exactly 300.
C8_ClampsToLimits ==
  /\ \A edge \in Edges, delta \in Deltas :
       LET new == NewSize(edge, delta)
           requested == RequestedSize(edge, delta)
           minSize == Along(edge, geom.d_minSize)
           maxSize == Along(edge, geom.d_maxSize)
       IN /\ maxSize = 0 =>
               new = IF requested < minSize THEN minSize ELSE requested
          /\ (maxSize # 0 /\ minSize <= maxSize) =>
               /\ minSize <= new /\ new <= maxSize
               /\ (minSize <= requested /\ requested <= maxSize) => new = requested
          /\ (maxSize # 0 /\ minSize > maxSize) =>
               new = IF requested > maxSize THEN maxSize ELSE minSize
  /\ ExampleWidth = Px(300)

\* A cursor move has dragged the right edge 40 pixels outwards and the
\* width stopped at the maximum of 40 pixels.
C8_Witness ==
  /\ last.op.name = "CursorMove"
  /\ last.op.position.x = Px(40)
  /\ frame.d_beingSized
  /\ isRightSizingLocation(getSizingBorderAtPoint(GuiState, frame.d_dragPoint))
  /\ geom.d_minSize.w = Px(20)
  /\ geom.d_maxSize.w = Px(40)
  /\ geom.d_area.r - geom.d_area.l = Px(40)
  /\ geom.d_pixelSize.w = Px(40)

\* C9: for every alignment, each move*Edge function changes the extent of
\* the output area on the dragged axis by exactly the clamped new size minus
\* the unconstrained current size and leaves the offsets of the other axis
\* unchanged; when the two sizes are equal the output area is unchanged.
C9_ExtentChange ==
  \A edge \in Edges, delta \in Deltas, outArea \in OutAreas :
    LET moved == MoveEdge(edge, delta, outArea).outArea
        change == ClampedSize(edge, delta) - Along(edge, getSize(GuiState))
    IN /\ Extent(edge, moved) - Extent(edge, outArea) = change
       /\ IF IsHorizontal(edge)
          THEN moved.t = outArea.t /\ moved.b = outArea.b
          ELSE moved.l = outArea.l /\ moved.r = outArea.r
       /\ change = 0 => moved = outArea

\* A cursor move has resized a window that is centred on both axes.
C9_Witness ==
  /\ last.op.name = "CursorMove"
  /\ frame.d_beingSized
  /\ geom.d_horizontalAlignment = "Centre"
  /\ geom.d_verticalAlignment = "Centre"
  /\ geom.d_area.r - geom.d_area.l # EdgeArea.r - EdgeArea.l
  /\ geom.d_area.b - geom.d_area.t # EdgeArea.b - EdgeArea.t

AnchorAfter(edge, delta) == MoveEdge(edge, delta, geom.d_area).gui.frame.d_dragPoint

RealizedChange(edge, delta) ==
  ClampedSize(edge, delta) - Along(edge, geom.d_pixelSize)

\* C10 as stated: moveRightEdge and moveBottomEdge shift the drag anchor on
\* the dragged axis by the clamped new size minus the current pixel size;
\* moveLeftEdge and moveTopEdge never change the anchor.
C10_AnchorShift ==
  \A delta \in Deltas :
    /\ AnchorAfter("Right", delta) =
         Pt(frame.d_dragPoint.x + RealizedChange("Right", delta), frame.d_dragPoint.y)
    /\ AnchorAfter("Bottom", delta) =
         Pt(frame.d_dragPoint.x, frame.d_dragPoint.y + RealizedChange("Bottom", delta))
    /\ AnchorAfter("Left", delta) = frame.d_dragPoint
    /\ AnchorAfter("Top", delta) = frame.d_dragPoint

\* C10 (amended): moveRightEdge and moveBottomEdge shift the drag anchor on
\* the dragged axis by the clamped new size minus the current pixel size,
\* and not by the cursor delta, unless the clamped new size equals the
\* unconstrained current size: then they return without moving the anchor,
\* also when the pixel size differs from the clamped new size.  moveLeftEdge
\* and moveTopEdge never change the anchor.
C10_AnchorShiftUnlessUnchanged ==
  \A delta \in Deltas :
    /\ AnchorAfter("Right", delta) =
         IF ClampedSize("Right", delta) = getSize(GuiState).w
         THEN frame.d_dragPoint
         ELSE Pt(frame.d_dragPoint.x + RealizedChange("Right", delta),
                 frame.d_dragPoint.y)
    /\ AnchorAfter("Bottom", delta) =
         IF ClampedSize("Bottom", delta) = getSize(GuiState).h
         THEN frame.d_dragPoint
         ELSE Pt(frame.d_dragPoint.x,
                 frame.d_dragPoint.y + RealizedChange("Bottom", delta))
    /\ AnchorAfter("Left", delta) = frame.d_dragPoint
    /\ AnchorAfter("Top", delta) = frame.d_dragPoint

\* A cursor move 40 pixels right of an anchor on the right border, one pixel
\* inside a window 30 pixels wide, was clamped at the maximum width of 40:
\* the anchor moved by 10 pixels.
C10_Witness ==
  /\ last.op.name = "CursorMove"
  /\ last.op.position.x = Px(40)
  /\ frame.d_beingSized
  /\ geom.d_maxSize.w = Px(40)
  /\ geom.d_pixelSize.w = Px(40)
  /\ frame.d_dragPoint.x = Px(39)

\* ------------------------------------------------------------------------
\* C11: sizing border zones
\* ------------------------------------------------------------------------
\* The vertical and the horizontal inset boundary a point crosses.
CrossedVertical(f, b, pt) ==
  IF pt.y < f.t + b THEN "Top" ELSE IF pt.y >= f.b - b THEN "Bottom" ELSE "None"

CrossedHorizontal(f, b, pt) ==
  IF pt.x < f.l + b THEN "Left" ELSE IF pt.x >= f.r - b THEN "Right" ELSE "None"

\* The zone named by a pair of crossed boundaries: a corner where both a
\* vertical and a horizontal one are crossed, else the single edge.
ZoneOf(v, h) ==
  CASE v = "Top" /\ h = "Left" -> "TopLeft"
    [] v = "Top" /\ h = "Right" -> "TopRight"
    [] v = "Bottom" /\ h = "Left" -> "BottomLeft"
    [] v = "Bottom" /\ h = "Right" -> "BottomRight"
    [] v # "None" /\ h = "None" -> v
    [] v = "None" /\ h # "None" -> h
    [] OTHER -> "Invalid"

ExpectedZone(f, b, pt) ==
  IF ~isPointInRectf(f, pt) THEN "Invalid"
  ELSE IF isPointInRectf(Rect(f.l + b, f.t + b, f.r - b, f.b - b), pt) THEN "Invalid"
  ELSE ZoneOf(CrossedVertical(f, b, pt), CrossedHorizontal(f, b, pt))

BorderQueried == last.op.name = "getSizingBorderAtPoint"

\* C11: with sizing and the frame enabled getSizingBorderAtPoint gives
\* Invalid outside the sizing rect and inside the rect inset by the border,
\* else the zone of the crossed inset boundaries, corners before edges; on
\* the 200 by 100 frame with border 8, (2,2) is TopLeft, (100,2) is Top,
\* (100,50) and (250,50) are Invalid; with sizing or the frame disabled
\* every point is Invalid.
C11_SizingBorderZones ==
  BorderQueried =>
    LET pt == last.op.position
        enabled == frame.d_sizingEnabled /\ frame.d_frameEnabled
    IN /\ enabled =>
            last.result = ExpectedZone(getSizingRect(GuiState), frame.d_borderSize, pt)
       /\ ~enabled => last.result = "Invalid"
       /\ (enabled /\ frame.d_borderSize = Px(8)
             /\ getSizingRect(GuiState) = Rect(0, 0, Px(200), Px(100))) =>
            /\ pt = Pt(Px(2), Px(2)) => last.result = "TopLeft"
            /\ pt = Pt(Px(100), Px(2)) => last.result = "Top"
            /\ pt = Pt(Px(100), Px(50)) => last.result = "Invalid"
            /\ pt = Pt(Px(250), Px(50)) => last.result = "Invalid"

\* A corner zone is reported for (2,2) on the enabled frame.
C11_Witness ==
  /\ BorderQueried
  /\ frame.d_sizingEnabled /\ frame.d_frameEnabled
  /\ last.op.position = Pt(Px(2), Px(2))
  /\ last.result = "TopLeft"

\* ------------------------------------------------------------------------
\* C12: toggleRollup
\* ------------------------------------------------------------------------
RollupToggledFired(l) == Count(l.fired, <<"F", "RollupToggled">>)

\* C12: a call of toggleRollup with rollup enabled flips the rolled-up flag
\* and fires exactly one RollupToggled; with rollup disabled the flag keeps
\* its value and no event is fired.
C12_ToggleRollup ==
  [][last'.op.name = "toggleRollup" =>
       IF frame.d_rollupEnabled
       THEN /\ frame'.d_rolledup = ~frame.d_rolledup
            /\ RollupToggledFired(last') = 1
       ELSE /\ frame'.d_rolledup = frame.d_rolledup
            /\ last'.fired = <<>>]_vars

\* toggleRollup has rolled the frame up and fired its event.
C12_Witness ==
  /\ last.op.name = "toggleRollup"
  /\ frame.d_rollupEnabled
  /\ frame.d_rolledup
  /\ RollupToggledFired(last) = 1

\* ------------------------------------------------------------------------
\* C13, C14: FrameWindow::isHit
\* ------------------------------------------------------------------------
HitQueried == last.op.name = "isHit"

C14_DisabledFrameHit ==
  (/\ HitQueried
   /\ last.op.source = "allow_disabled"
   /\ isDisabled(GuiState, "F")
   /\ ~frame.d_rolledup
   /\ Window_isHit(GuiState, last.op.position, TRUE))
    => last.result = TRUE

\* ------------------------------------------------------------------------
\* C15: moving the frame by its Titlebar
\* ------------------------------------------------------------------------
TitlebarMoved(l) == l.op.name = "CursorMove" /\ l.op.window = "T"

\* The cursor position local to the Titlebar minus the drag anchor.
DragDelta(position) ==
  Pt(screenToWindow("T", position).x - titlebar.d_dragPoint.x,
     screenToWindow("T", position).y - titlebar.d_dragPoint.y)

\* C15: a cursor move on a dragging Titlebar whose direct parent is a
\* FrameWindow adds the cursor position local to the Titlebar minus the
\* drag anchor to the parent's position, keeping its extents; on a Titlebar
\* that is not dragging, or whose parent is not a FrameWindow, it changes no
\* window's position.
C15_DragMovesParent ==
  [][TitlebarMoved(last') =>
       IF titlebar.d_dragging /\ IsFrameWindow(win.d_parent["T"])
       THEN /\ geom'.d_area.l = geom.d_area.l + DragDelta(last'.op.position).x
            /\ geom'.d_area.t = geom.d_area.t + DragDelta(last'.op.position).y
            /\ geom'.d_area.r - geom'.d_area.l = geom.d_area.r - geom.d_area.l
            /\ geom'.d_area.b - geom'.d_area.t = geom.d_area.b - geom.d_area.t
            /\ win'.d_position = win.d_position
       ELSE /\ geom' = geom
            /\ win'.d_position = win.d_position]_vars

\* A move on the dragging Titlebar has shifted its parent frame from the
\* position it was constructed at.
C15_Witness ==
  /\ TitlebarMoved(last)
  /\ titlebar.d_dragging
  /\ IsFrameWindow(win.d_parent["T"])
  /\ geom.d_area.l # FrameGeom.d_area.l
  /\ geom.d_area.t # FrameGeom.d_area.t

\* ------------------------------------------------------------------------
\* C16: the select-word event on a Titlebar
\* ------------------------------------------------------------------------
SelectWordLeft(l) ==
  l.op.name = "SelectWord" /\ l.op.window = "T" /\ l.op.source = "Left"

\* C16: a SelectWord event with Left source on a Titlebar that is not
\* disabled and whose parent is a FrameWindow makes one call of the parent's
\* toggleRollup (the rolled-up flag flips and one RollupToggled is fired if
\* rollup is enabled, nothing changes if it is not) and marks the event
\* handled once; on a disabled Titlebar the rollup state is as before.
C16_SelectWordTogglesRollup ==
  [][SelectWordLeft(last') =>
       /\ (~isDisabled(GuiState, "T") /\ IsFrameWindow(win.d_parent["T"])) =>
            /\ frame' = toggleRollup(GuiState).frame
            /\ frame'.d_rolledup = (frame.d_rolledup # frame.d_rollupEnabled)
            /\ RollupToggledFired(last') = IF frame.d_rollupEnabled THEN 1 ELSE 0
            /\ Count(last'.handled, <<"semantic", "Titlebar">>) = 1
       /\ isDisabled(GuiState, "T") =>
            /\ frame' = frame
            /\ RollupToggledFired(last') = 0]_vars

\* The event has rolled up the parent frame of an enabled Titlebar.
C16_Witness ==
  /\ SelectWordLeft(last)
  /\ ~isDisabled(GuiState, "T")
  /\ IsFrameWindow(win.d_parent["T"])
  /\ frame.d_rolledup
  /\ RollupToggledFired(last) = 1
  /\ Count(last.handled, <<"semantic", "Titlebar">>) = 1

\* ------------------------------------------------------------------------
\* C17: the System singleton
\* ------------------------------------------------------------------------
Called(r, name) == r.call.name = name

SharedBuffers == {"solid", "textured"}

\* Byte size of the data uploadBuffers handed to uploadVertexData for vbo.
UploadedBytes(r, vbo) == VectorSize(VertexData(r, vbo)) * FloatBytes

GlCalls(r, vbo) == {i \in 1..Len(r.call.gl) : r.call.gl[i].target = vbo}

\* The one OpenGL call the upload made on vbo.
GlCallIs(r, vbo, name, offset, size) ==
  /\ Cardinality(GlCalls(r, vbo)) = 1
  /\ \A i \in GlCalls(r, vbo) :
       r.call.gl[i] = [name |-> name, target |-> vbo, offset |-> offset, size |-> size]

\* C18: an upload of non-empty data of s bytes into a buffer of recorded
\* capacity c reallocates the buffer and makes the capacity s if s > c, and
\* if s <= c updates the buffer in place from offset 0 and keeps c.
C18_ReallocOrUpdate ==
  [][Called(renderer', "uploadBuffers") =>
       \A vbo \in SharedBuffers :
         LET s == UploadedBytes(renderer', vbo)
             c == MaxSize(renderer, vbo)
         IN s > 0 =>
              IF s > c
              THEN /\ MaxSize(renderer', vbo) = s
                   /\ GlCallIs(renderer', vbo, "glBufferData", 0, s)
              ELSE /\ MaxSize(renderer', vbo) = c
                   /\ GlCallIs(renderer', vbo, "glBufferSubData", 0, s)]_vars

\* Data smaller than the capacity have been written in place to the solid
\* buffer.
C18_Witness ==
  /\ Called(renderer, "uploadBuffers")
  /\ UploadedBytes(renderer, "solid") > 0
  /\ UploadedBytes(renderer, "solid") < MaxSize(renderer, "solid")
  /\ GlCallIs(renderer, "solid", "glBufferSubData", 0, UploadedBytes(renderer, "solid"))

\* C19: while a renderer lives the recorded capacity of each shared buffer
\* never decreases; after an upload of non-empty data it is at least their
\* byte size; an upload of empty data leaves the capacity as it was and
\* binds no buffer, so that the binding is that of the last non-empty
\* upload, or unchanged.
C19_CapacityMonotone ==
  [][/\ (renderer.liveRenderers = 1 /\ renderer'.liveRenderers = 1) =>
          \A vbo \in SharedBuffers : MaxSize(renderer', vbo) >= MaxSize(renderer, vbo)
     /\ Called(renderer', "uploadBuffers") =>
          /\ \A vbo \in SharedBuffers :
               IF UploadedBytes(renderer', vbo) > 0
               THEN MaxSize(renderer', vbo) >= UploadedBytes(renderer', vbo)
               ELSE /\ MaxSize(renderer', vbo) = MaxSize(renderer, vbo)
                    /\ GlCalls(renderer', vbo) = {}
          /\ renderer'.arrayBufferBinding =
               IF UploadedBytes(renderer', "textured") > 0 THEN "textured"
               ELSE IF UploadedBytes(renderer', "solid") > 0 THEN "solid"
               ELSE renderer.arrayBufferBinding]_vars

\* An upload with no solid data has left the solid buffer, filled earlier,
\* and the binding of the textured buffer it uploaded.
C19_Witness ==
  /\ Called(renderer, "uploadBuffers")
  /\ UploadedBytes(renderer, "solid") = 0
  /\ MaxSize(renderer, "solid") > 0
  /\ UploadedBytes(renderer, "textured") > 0
  /\ renderer.arrayBufferBinding = "textured"

\* ------------------------------------------------------------------------
\* C20: where each geometry buffer lies in the shared buffers
\* ------------------------------------------------------------------------
RECURSIVE VerticesBefore(_, _, _, _)
\* The vertices of the given layout in the first n buffers of the list.
VerticesBefore(r, buffers, n, element_count) ==
  IF n = 0 THEN 0
  ELSE VerticesBefore(r, buffers, n - 1, element_count)
         + (IF r.layout[buffers[n]] = element_count THEN r.vertices[buffers[n]] ELSE 0)

\* The shared buffer the data of a geometry buffer were copied to.
CopiedTo(r, buffer) ==
  {vbo \in SharedBuffers :
     \E i \in 1..Len(VertexData(r, vbo)) : VertexData(r, vbo)[i].buffer = buffer}

\* The range of floats the draw call of a buffer reads: its vertices from
\* d_verticesVBOPosition on, in its own layout.
FloatRange(r, buffer) ==
  {f \in 0..(VectorSize(r.d_vertex_data_solid) + VectorSize(r.d_vertex_data_textured)) :
     /\ f >= r.d_verticesVBOPosition[buffer] * r.layout[buffer]
     /\ f < (r.d_verticesVBOPosition[buffer] + r.vertices[buffer]) * r.layout[buffer]}

\* C20: after uploadBuffers over a list, the verticesVBOPosition of every
\* non-empty buffer is the number of vertices of its layout before it in the
\* list, the buffers with 9 floats per vertex lie in the textured buffer
\* and all others in the solid one, and the ranges of two buffers in the
\* same shared buffer are disjoint.
C20_PositionsFollowList ==
  Called(renderer, "uploadBuffers") =>
    LET buffers == renderer.call.arg
        filled == {i \in 1..Len(buffers) : renderer.vertices[buffers[i]] > 0}
    IN /\ \A i \in filled :
            /\ renderer.d_verticesVBOPosition[buffers[i]]
                 = VerticesBefore(renderer, buffers, i - 1, renderer.layout[buffers[i]])
            /\ CopiedTo(renderer, buffers[i])
                 = IF renderer.layout[buffers[i]] = TexturedElementCount
                   THEN {"textured"} ELSE {"solid"}
       /\ \A i, j \in filled :
            (i # j /\ CopiedTo(renderer, buffers[i]) = CopiedTo(renderer, buffers[j])) =>
              FloatRange(renderer, buffers[i]) \cap FloatRange(renderer, buffers[j]) = {}

\* The same, for geometry buffers of the two layouts the renderer makes.
C20_StandardLayouts ==
  (\A b \in GeometryBuffers :
     renderer.layout[b] \in {ColouredElementCount, TexturedElementCount})
    => C20_PositionsFollowList

\* ------------------------------------------------------------------------
\* C21  setupRenderingBlendMode(mode, force): with mode equal to the cached
\* active mode and force false it makes no blend-function call and leaves
\* the cached mode as it was; with force true, or with a mode other than
\* the cached one, it makes exactly the blend-function call of mode
\* (blendFunc(ONE, ONE_MINUS_SRC_ALPHA) for RttPremultiplied, the separate
\* function for Normal) and the cached mode becomes mode.
\* ------------------------------------------------------------------------
BlendCalls == {"blendFunc", "blendFuncSeparate"}

\* the blend-function call the specification gives for a mode
IsBlendCallOf(mode, c) ==
  /\ c.name \in BlendCalls
  /\ mode = "RttPremultiplied" => c.name = "blendFunc" /\ c.value = PremultipliedBlendFunc
  /\ mode = "Normal" => c.name = "blendFuncSeparate" /\ c.value = NormalBlendFunc

C21_BlendModeSetup ==
  [][renderer'.call.name = "setupRenderingBlendMode" =>
       LET mode == renderer'.call.arg[1]
           force == renderer'.call.arg[2]
           cached == renderer.d_activeBlendMode
           calls == renderer'.call.changer
       IN /\ (cached = mode /\ ~force) =>
               /\ calls = <<>>
               /\ renderer'.d_activeBlendMode = cached
          /\ (force \/ cached # mode) =>
               /\ Len(calls) = 1
               /\ IsBlendCallOf(mode, calls[1])
               /\ renderer'.d_activeBlendMode = mode]_vars

\* a forced call for the function the wrapper had already set: the call is
\* made on the wrapper all the same
C21_Witness ==
  /\ renderer.call.name = "setupRenderingBlendMode"
  /\ renderer.call.arg = <<"Normal", TRUE>>
  /\ Len(renderer.call.changer) = 1
  /\ ~renderer.call.changer[1].issued

\* ------------------------------------------------------------------------
\* C22  After every beginRendering(), whatever the blend mode and the state
\* of the context were before, the cached active blend mode is Normal, the
\* wrapper was reset first, the calls of the default-state restore (made
\* when state resetting is enabled) come next, then scissor test and
\* blending are enabled, and the Normal blend function is the last call
\* and reaches OpenGL: the context has scissor test and blending enabled
\* and the Normal blend function set.
\* ------------------------------------------------------------------------
C22_BeginRendering ==
  renderer.call.name = "beginRendering" =>
    LET calls == renderer.call.changer
        n == Len(calls)
        restore == 2..(n - 3)
    IN /\ renderer.d_activeBlendMode = "Normal"
       /\ n >= 4
       /\ calls[1].name = "reset"
       /\ restore # {} <=> renderer.d_isStateResettingEnabled
       /\ \A i \in restore : calls[i].name \notin {"reset", "enable", "blendFuncSeparate"}
       /\ restore # {} => \E i \in restore :
                             calls[i].name = "blendFunc" /\ calls[i].value = DefaultBlendFunc
       /\ calls[n - 2] = [name |-> "enable", state |-> "GL_SCISSOR_TEST",
                          value |-> "enabled", issued |-> TRUE]
       /\ calls[n - 1] = [name |-> "enable", state |-> "GL_BLEND",
                          value |-> "enabled", issued |-> TRUE]
       /\ calls[n] = [name |-> "blendFuncSeparate", state |-> "blendFunc",
                      value |-> NormalBlendFunc, issued |-> TRUE]
       /\ renderer.context["GL_SCISSOR_TEST"] = "enabled"
       /\ renderer.context["GL_BLEND"] = "enabled"
       /\ renderer.context["blendFunc"] = NormalBlendFunc

\* a frame begun with state resetting enabled
C22_Witness ==
  /\ renderer.call.name = "beginRendering"
  /\ renderer.d_isStateResettingEnabled
  /\ Len(renderer.call.changer) > 4
  /\ renderer.context["blendFunc"] = NormalBlendFunc

\* ------------------------------------------------------------------------
\* C23  createRenderMaterial returns a material bound to the textured
\* shader wrapper for the Textured type and to the solid shader wrapper for
\* the Solid type, and fails with InvalidRequest for any other value of the
\* default shader type.
\* ------------------------------------------------------------------------
C23_RenderMaterial ==
  renderer.call.name = "createRenderMaterial" =>
    LET shaderType == renderer.call.arg[1]
    IN /\ shaderType = "Textured" =>
            renderer.call.result = "ok" /\ renderer.call.value = "d_shaderWrapperTextured"
       /\ shaderType = "Solid" =>
            renderer.call.result = "ok" /\ renderer.call.value = "d_shaderWrapperSolid"
       /\ shaderType \notin {"Textured", "Solid"} =>
            renderer.call.result = "InvalidRequest" /\ renderer.call.value = "none"

\* ------------------------------------------------------------------------
\* C24  For every window of every tree, isEffectiveVisible() is the
\* window's own visible flag AND its parent's isEffectiveVisible(), a root
\* window's value being its own flag; it is true exactly when the window
\* and all of its ancestors have their local visible flag set.
\* ------------------------------------------------------------------------
AncestorsOrSelf(w) == {a \in Windows : a = w \/ IsAncestor(GuiState, a, w)}

C24_EffectiveVisible ==
  last.op.name = "isEffectiveVisible" =>
    LET w == last.op.window
        parent == win.d_parent[w]
    IN /\ last.result = (\A a \in AncestorsOrSelf(w) : win.d_visible[a])
       /\ parent = NoWindow => last.result = win.d_visible[w]
       /\ parent # NoWindow =>
            last.result = (win.d_visible[w] /\ isEffectiveVisible(GuiState, parent))

\* a visible window with a visible parent and a hidden grandparent
C24_Witness ==
  /\ last.op.name = "isEffectiveVisible"
  /\ last.result = FALSE
  /\ LET w == last.op.window
         parent == win.d_parent[w]
     IN /\ win.d_visible[w]
        /\ parent # NoWindow
        /\ win.d_visible[parent]
        /\ win.d_parent[parent] # NoWindow
        /\ ~win.d_visible[win.d_parent[parent]]

\* ------------------------------------------------------------------------
\* C25  For every window, isActive() is its local active flag AND (it has
\* no parent OR its parent's isActive()), so it is true exactly when the
\* window and all of its ancestors have the local flag set; a window whose
\* local active flag is true while its parent is not active reports
\* isActive() = false.
\* ------------------------------------------------------------------------
C25_ActiveChain ==
  last.op.name = "isActive" =>
    LET w == last.op.window
        parent == win.d_parent[w]
    IN /\ last.result = (\A a \in AncestorsOrSelf(w) : win.d_active[a])
       /\ last.result = (win.d_active[w] /\ (parent = NoWindow \/ isActive(GuiState, parent)))
       /\ (win.d_active[w] /\ parent # NoWindow
             /\ \E a \in AncestorsOrSelf(parent) : ~win.d_active[a]) => last.result = FALSE

\* a window activated while its parent is not active
C25_Witness ==
  /\ last.op.name = "isActive"
  /\ last.result = FALSE
  /\ win.d_active[last.op.window]
  /\ win.d_parent[last.op.window] # NoWindow
  /\ ~win.d_active[win.d_parent[last.op.window]]

\* ------------------------------------------------------------------------
\* C26  The string conversion of WindowUpdateMode round-trips: for each of
\* Always, Never and Visible, toString gives exactly the literal "Always",
\* "Never" or "Visible", and fromString(toString(m)) = m.
\* ------------------------------------------------------------------------
Literal(m) ==
  CASE m = WindowUpdateMode_Always -> "Always"
    [] m = WindowUpdateMode_Never -> "Never"
    [] m = WindowUpdateMode_Visible -> "Visible"

C26_RoundTrip ==
  (last.op.name = "toString" /\ win.d_updateMode[last.op.window] \in WindowUpdateModes) =>
    LET m == win.d_updateMode[last.op.window]
    IN /\ last.result = Literal(m)
       /\ fromString(last.result) = m

\* the mode Never read back as a string
C26_Witness ==
  /\ last.op.name = "toString"
  /\ win.d_updateMode[last.op.window] = WindowUpdateMode_Never
  /\ last.result = "Never"

\* ------------------------------------------------------------------------
\* C27  fromString of WindowUpdateMode never fails: every string other than
\* exactly "Always" or "Never", of wrong case, empty or malformed, gives
\* Visible; "Always" gives Always and "Never" gives Never.
\* ------------------------------------------------------------------------
C27_FromStringFallback ==
  last.op.name = "fromString" =>
    LET str == last.op.source
    IN /\ last.result \in WindowUpdateModes
       /\ str \notin {"Always", "Never"} => last.result = WindowUpdateMode_Visible
       /\ str = "Always" => last.result = WindowUpdateMode_Always
       /\ str = "Never" => last.result = WindowUpdateMode_Never
       /\ win.d_updateMode[last.op.window] = last.result

\* a literal in the wrong case, set on a window whose mode was not Visible
C27_Witness ==
  /\ last.op.name = "fromString"
  /\ last.op.source = "always"
  /\ last.result = WindowUpdateMode_Visible
  /\ \E w \in TreeWindows : win.d_updateMode[w] = WindowUpdateMode_Always

\* ------------------------------------------------------------------------
\* C28  Whenever an InventoryItem reports currentDropTargetIsValid() = true,
\* its drop target is an InventoryReceiver that would accept the item
\* (itemWillFitAtLocation) at the grid cell under the item's position: the
\* flag is false when the target is no InventoryReceiver and when the item
\* lies outside the grid or on an occupied cell.
\* ------------------------------------------------------------------------
WouldAccept(inv) ==
  /\ IsInventoryReceiver(inv.d_dropTarget)
  /\ itemWillFitAtLocation(inv, ReceiverCell(inv).x, ReceiverCell(inv).y)

C28_ValidTargetFits == currentDropTargetIsValid(inventory) => WouldAccept(inventory)

\* After a move that did not change the drop target the flag is exact.
C28_ExactAfterMove ==
  (inventory.call.moved /\ ~inventory.call.targetChanged) =>
    (currentDropTargetIsValid(inventory) <=> WouldAccept(inventory))

\* ------------------------------------------------------------------------
\* C29  In FormNavigationDemo a click on Confirm disables the Confirm
\* button, and the button stays disabled until Reset is clicked; a click
\* on Reset, from any state, leaves the three edit boxes empty, the
\* checkbox unchecked and the Confirm button enabled.
\* ------------------------------------------------------------------------
C29_ConfirmAndReset ==
  [][/\ form'.clicked.button = "Confirm" => ~form'.d_confirmButton
     /\ (~form.d_confirmButton /\ form'.clicked.button # "Reset") => ~form'.d_confirmButton
     /\ form'.clicked.button = "Reset" =>
          /\ \A i \in Editboxes : form'.d_editboxes[i] = ""
          /\ ~form'.d_isGameMasterCheckbox
          /\ form'.d_confirmButton]_vars

\* Reset clicked on a filled form whose Confirm button was disabled
C29_Witness ==
  /\ form.clicked.button = "Reset"
  /\ form.clicked.from.d_confirmButton = FALSE
  /\ form.clicked.from.d_isGameMasterCheckbox
  /\ \A i \in Editboxes : form.clicked.from.d_editboxes[i] # ""
  /\ form.d_confirmButton

\* ------------------------------------------------------------------------
\* C30  After any sequence of logged widget events the text of the event
\* log is at most 2056 characters long; old content is dropped only when
\* appending made the text longer than 2056 characters, and after a drop
\* the remaining text starts at a line boundary.
\* ------------------------------------------------------------------------
\* characters of the old text and the message that the log no longer holds
Dropped(w) == w.call.appended - length(w.d_widgetsEventsLog)

C30_LogCapped ==
  /\ length(widgets.d_widgetsEventsLog) <= LogCap
  /\ (widgets.call.name = "logFiredEvent" /\ Dropped(widgets) > 0) =>
       /\ widgets.call.appended > LogCap
       /\ Head(widgets.d_widgetsEventsLog) = 1

\* The same with a drop allowed from 2056 characters on.
C30_CappedFromCapOn ==
  /\ length(widgets.d_widgetsEventsLog) <= LogCap
  /\ (widgets.call.name = "logFiredEvent" /\ Dropped(widgets) > 0) =>
       /\ widgets.call.appended >= LogCap
       /\ Head(widgets.d_widgetsEventsLog) = 1

\* ------------------------------------------------------------------------
\* C31  While the property inspector is filled, an exception thrown while
\* the value of a property is retrieved is caught there: the row of that
\* property is left without a value and the remaining properties of the
\* widget are still listed.
\* ------------------------------------------------------------------------
\* the inspector lists property i, with a value exactly if its read gave one
Listed(w, i) ==
  /\ i <= Len(w.d_widgetPropertiesDisplayWindow)
  /\ w.d_widgetPropertiesDisplayWindow[i].name = PropertyList[i]
  /\ w.d_widgetPropertiesDisplayWindow[i].value <=> (w.retrieval[i] = "value")

Filled(w) == w.call.name = "handleWidgetSelectionChanged" /\ w.selected

C31_RetrievalCaught ==
  Filled(widgets) =>
    /\ widgets.thrown = "none"
    /\ \A i \in 1..NProperties : Listed(widgets, i)

\* The same for reads that throw nothing but InvalidRequestException.
C31_InvalidRequestCaught ==
  (Filled(widgets) /\ \A i \in 1..NProperties : widgets.retrieval[i] # "UnknownObjectException") =>
    /\ widgets.thrown = "none"
    /\ \A i \in 1..NProperties : Listed(widgets, i)

\* a read that threw InvalidRequestException, followed by one that gave a value
C31_CaughtCase ==
  /\ Filled(widgets)
  /\ widgets.retrieval[1] = "InvalidRequestException"
  /\ widgets.retrieval[2] = "value"
  /\ Listed(widgets, 2)

C32_SizingHoldsCapture == frame.d_beingSized => ctx.captureWnd = "F"

\* a step in which a window that restores the old capture takes the
\* capture from the FrameWindow
TakenSilently ==
  /\ ctx.captureWnd = "F"
  /\ SilentSteal
  /\ win'.d_oldCapture[ctx'.captureWnd] = "F"

\* C32 (amended): the beingSized flag becomes true only in a FrameWindow
\* that holds the input capture, and a FrameWindow that holds the capture
\* with beingSized true keeps holding it as long as the flag is true, unless
\* a window with restore-old-capture enabled takes the capture: then the
\* FrameWindow is not told, and beingSized stays true while that window is
\* the capture window.
C32_SizingHoldsCaptureUnlessTaken ==
  [][/\ (~frame.d_beingSized /\ frame'.d_beingSized) => ctx'.captureWnd = "F"
     /\ (frame.d_beingSized /\ ctx.captureWnd = "F" /\ frame'.d_beingSized) =>
          (ctx'.captureWnd = "F" \/ TakenSilently)]_vars

\* a size-drag whose capture another window took silently
C32_Witness ==
  /\ frame.d_beingSized
  /\ ctx.captureWnd = "O"
  /\ win.d_restoreOldCapture["O"]
  /\ win.d_oldCapture["O"] = "F"
  /\ last.op.name = "captureInput"
  /\ last.op.window = "O"

\* ------------------------------------------------------------------------
\* C33  Throughout one size-drag every cursor move resizes the edge or
\* corner on which the drag started: the sizing location of the stored drag
\* anchor does not change as the window is resized, also when the window is
\* shrunk below twice the thickness of the border.
\* ------------------------------------------------------------------------
\* the edge the next cursor move of the size-drag works on
DragEdge == getSizingBorderAtPoint(GuiState, frame.d_dragPoint)

SizedByMove ==
  frame.d_beingSized /\ frame'.d_beingSized /\ last'.op.name = "CursorMove"

C33_SameEdge == [][SizedByMove => DragEdge' = DragEdge]_vars

\* the declared maximum is none or not below the declared minimum
LimitsInOrder ==
  /\ geom.d_maxSize.w = 0 \/ geom.d_minSize.w <= geom.d_maxSize.w
  /\ geom.d_maxSize.h = 0 \/ geom.d_minSize.h <= geom.d_maxSize.h

\* The same for the moves that leave the window at least twice the border
\* wide and high, the size limits being in order.
C33_SameEdgeWhileWide ==
  [][(/\ SizedByMove
      /\ LimitsInOrder
      /\ geom'.d_pixelSize.w >= 2 * frame.d_borderSize
      /\ geom'.d_pixelSize.h >= 2 * frame.d_borderSize) => DragEdge' = DragEdge]_vars

\* ------------------------------------------------------------------------
\* C34  After any sequence of setRollupEnabled, toggleRollup and
\* setRolledup calls, calls made from a RollupToggled handler included, a
\* FrameWindow that is rolled up has rollup enabled: disabling rollup on a
\* rolled-up window unrolls it, and setRolledup(true) has no effect while
\* rollup is disabled.
\* ------------------------------------------------------------------------
C34_RolledupEnabled == isRolledup(GuiState) => isRollupEnabled(GuiState)

\* The same without a subscriber that calls back.
C34_RolledupEnabledNoHandler ==
  frame.handler = NoHandlerCall => (isRolledup(GuiState) => isRollupEnabled(GuiState))

\* ------------------------------------------------------------------------
\* C35  After setDraggingEnabled(false) has returned the Titlebar is not
\* dragging (isDragged() is false), so in every reachable state a Titlebar
\* that is dragging has dragging enabled.
\* ------------------------------------------------------------------------
C35_DraggingIsEnabled == titlebar.d_dragging => titlebar.d_dragEnabled

\* setDraggingEnabled(false) on a Titlebar that has dragging enabled and
\* holds the input capture leaves it not dragging.
C35_DisablingWithCaptureStops ==
  [][(/\ last'.op.name = "setDraggingEnabled"
      /\ titlebar.d_dragEnabled
      /\ ~titlebar'.d_dragEnabled
      /\ ctx.captureWnd = "T") => ~titlebar'.d_dragging]_vars

\* ------------------------------------------------------------------------
\* C36  The owning Event's unsubscribe is invoked at most once per
\* BoundSlot, also when disconnect() is entered again (from the slot's
\* destructor, run because the Event dropped the last reference) while the
\* unsubscribe call of the first disconnect() is still running.
\* ------------------------------------------------------------------------
C36_UnsubscribeOnce == \A s \in Slots : unsubscribeCalls[s] <= 1

\* Only the nested entry repeats the call: a slot that was unsubscribed
\* twice was destroyed inside its own disconnect(), and never more than
\* twice.
C36_TwiceOnlyNested ==
  \A s \in Slots :
    /\ unsubscribeCalls[s] <= 2
    /\ unsubscribeCalls[s] = 2 => status[s] = "destroyed"

\* ------------------------------------------------------------------------
\* C37  Whenever setupRenderingBlendMode(mode, false) returns without a
\* blend call, the blend function last issued through the state-change
\* wrapper is the one of mode: in every state reached through
\* beginRendering, endRendering, restoreChangedStatesToDefaults and
\* setupRenderingBlendMode the cached active blend mode agrees with the
\* blend function the wrapper last set.
\* ------------------------------------------------------------------------
BlendFuncOf(mode) ==
  IF mode = "RttPremultiplied" THEN PremultipliedBlendFunc ELSE NormalBlendFunc

CacheAgrees(r) ==
  r.d_activeBlendMode \in {"Normal", "RttPremultiplied"} =>
    r.d_openGLStateChanger["blendFunc"] = BlendFuncOf(r.d_activeBlendMode)

C37_BlendCacheAgrees == SystemExists(renderer) => CacheAgrees(renderer)

\* The restore at the end of a frame is the only step after which the
\* cached mode and the wrapper's blend function differ.
C37_OnlyRestoreDisagrees ==
  [][(CacheAgrees(renderer) /\ ~CacheAgrees(renderer'))
       => (renderer'.call.name = "endRendering" /\ renderer.d_isStateResettingEnabled)]_vars

====
